---- MODULE Spec2Model ----
(***************************************************************************)
(* A model of the fractal engine of seebsfrac (the pixel-based variant,    *)
(* src/unnamed/part_002 lines 586-1520): the Fractal type with its depth   *)
(* buffers, Alloc / Changed / Render / Partial / Points, the edit          *)
(* operations, and the frame loop of run() that drives them.               *)
(*                                                                         *)
(* Representation.                                                         *)
(*  - float64 coordinates are fixed-point integers counted in 1/Unit, so   *)
(*    the point (1,0) is (Unit,0); products of two coordinates are         *)
(*    rescaled by Unit with rounding toward minus infinity.                *)
(*  - int16 colours keep their width (Int16 wraps modulo 2^16) and Go's    *)
(*    sign-preserving remainder is GoRem.                                  *)
(*  - a Go slice into the backing array is a pair [lo, hi) of indices of   *)
(*    data; Go index i of a slice is TLA+ index i+1 of a sequence.         *)
(*  - a run-time panic ends the program: frac.panic names the place and    *)
(*    no operation does anything afterwards.                               *)
(*  - mouse positions are given in fractal coordinates (the value of       *)
(*    fracMatrix.Unproject(canPos)); the view transform itself is not part *)
(*    of the state.                                                        *)
(***************************************************************************)
EXTENDS Integers, Sequences, FiniteSets, TLC

\* ------------------------------------------------------------------ bounds
\* Resolution of the fixed-point coordinates: 1.0 is Unit.
Unit == 8
\* Number of Base-changing edits (API calls or frame callbacks) in a run.
MaxEdits == 1
\* Largest MaxOOM of the layout-only specification AllocSpec.
TopOOM == 22
\* Hit-test radius of a press in the fractal area, in 1/Unit.
HitRadius == 2
\* The step of the X and Y buttons, in 1/Unit.
Step == 1

\* --------------------------------------------------------- program constants
Hide == 1
Prune == 2
FlipX == 4
FlipY == 8
FixedC == 16
\* Alloc starts from f.MaxDepth = 20.
DepthCap == 20
\* The colour range of modPlus(.., 1024) and Color %= 1024.
ColorRange == 1024
\* AddPoint refuses at len(Base) >= 6, DelPoint at len(Base) < 3.
AddLimit == 6
DelLimit == 3
\* Changed renders depths 0..5.
EagerDepth == 5
\* The zoom counter is followed within -MaxZoom..MaxZoom.
MaxZoom == 1

\* ------------------------------------------------------------- arithmetic
Pow2(n) == 2 ^ n

Min2(a, b) == IF a < b THEN a ELSE b

Max2(a, b) == IF a > b THEN a ELSE b

\* Go's x % y for y > 0: the remainder has the sign of x.
GoRem(x, y) == IF x >= 0 THEN x % y ELSE 0 - ((0 - x) % y)

\* Conversion to int16 (wraps).
Int16(x) == ((x + 32768) % 65536) - 32768

\* modPlus yields the positive remainder of x/y.
modPlus(x, y) ==
    LET r == GoRem(x, y) IN IF r < 0 THEN r + y ELSE r

\* Flags are bit sets held as integers.
HasFlag(flags, flag) == (flags \div flag) % 2 = 1

XorFlag(flags, flag) == IF HasFlag(flags, flag) THEN flags - flag ELSE flags + flag

\* flags | (mask & (FlipX | FlipY)): the flips set, never cancelled.
OrFlips(flags, mask) ==
    LET a == IF HasFlag(mask, FlipX) /\ ~HasFlag(flags, FlipX) THEN flags + FlipX ELSE flags
    IN IF HasFlag(mask, FlipY) /\ ~HasFlag(a, FlipY) THEN a + FlipY ELSE a

\* flags ^ (mask & (FlipX | FlipY))
XorFlips(flags, mask) ==
    LET a == IF HasFlag(mask, FlipX) THEN XorFlag(flags, FlipX) ELSE flags
    IN IF HasFlag(mask, FlipY) THEN XorFlag(a, FlipY) ELSE a

\* ------------------------------------------------------------------ points
Vec(x, y) == [X |-> x, Y |-> y]

ZeroVec == Vec(0, 0)

Pt(x, y, flags, color) == [X |-> x, Y |-> y, Flags |-> flags, Color |-> color]

\* Point{}: Go's zero value.
ZeroPoint == Pt(0, 0, 0, 0)

\* Point{Vec: pixel.Vec{X: 1, Y: 0}}
UnitPoint == Pt(Unit, 0, 0, 0)

\* pixel.Rect{Min: pixel.Vec{}, Max: pixel.Vec{X: 1}}
BaseSpan == [Min |-> ZeroVec, Max |-> Vec(Unit, 0)]

\* pixel.Rect.Union
Union(r, s) ==
    [Min |-> Vec(Min2(r.Min.X, s.Min.X), Min2(r.Min.Y, s.Min.Y)),
     Max |-> Vec(Max2(r.Max.X, s.Max.X), Max2(r.Max.Y, s.Max.Y))]

\* NewAffineBetween with the translation of the segment's end point.
NewAffineFromEnd(p0, p1) ==
    LET dx == p1.X - p0.X
        dy == p1.Y - p0.Y
    IN <<dx, dy, 0 - dy, dx, p1.X, p1.Y>>

\* NewAffineBetween: the matrix {s*cos, s*sin, -s*sin, s*cos, p0.X, p0.Y} with
\* s*cos = dx and s*sin = dy, as [x1, y1, x2, y2, x0, y0] in 1/Unit.
NewAffineBetween(p0, p1) ==
    LET dx == p1.X - p0.X
        dy == p1.Y - p0.Y
    IN <<dx, dy, 0 - dy, dx, p0.X, p0.Y>>

\* pixel.Matrix.Project: x' = m0*x + m2*y + m4, y' = m1*x + m3*y + m5.
Project(m, v) ==
    Vec(((m[1] * v.X + m[3] * v.Y) \div Unit) + m[5],
        ((m[2] * v.X + m[4] * v.Y) \div Unit) + m[6])

\* ----------------------------------------------------------------- Fractal
\* A Fractal is a record:
\*   Base, Inverse    sequences of points
\*   MaxOOM, MaxDepth, Total, selectedPoint, Depth
\*   data             the backing array, a sequence of 2^MaxOOM points (Go's
\*                    data[i] is data[i + 1])
\*   lines            the per-depth slices of data, each [lo, hi)
\*   Bounds           the running bounding rectangle
\*   panic            "" while the program runs, else the place that panicked
\*   rendered         history: the depths Render has filled since the last
\*                    Changed() began (not a field of the Go struct)
\*   chg              history: Changed() ran during the last step
\*   alloced          history: Alloc() ran during the last step

Panicked(f) == f.panic # ""

\* len(f.lines[depth])
LineLen(f, depth) == f.lines[depth + 1].hi - f.lines[depth + 1].lo

\* The points of the slice f.lines[depth].
Line(f, depth) == SubSeq(f.data, f.lines[depth + 1].lo + 1, f.lines[depth + 1].hi)

\* Points with the zero Point at depth 0: the Vec of the literal left out.
PointsZeroValue(f, depth) ==
    IF depth > f.Depth \/ depth < 0
    THEN [nil |-> TRUE, pts |-> <<>>]
    ELSE IF depth = 0
         THEN [nil |-> FALSE, pts |-> <<ZeroPoint>>]
         ELSE [nil |-> FALSE, pts |-> Line(f, depth)]

\* Points with its bound off by one: the slice above Depth is handed out too
\* (where lines has one).
PointsPastDepth(f, depth) ==
    IF depth > f.Depth + 1 \/ depth < 0 \/ depth >= Len(f.lines)
    THEN [nil |-> TRUE, pts |-> <<>>]
    ELSE IF depth = 0
         THEN [nil |-> FALSE, pts |-> <<UnitPoint>>]
         ELSE [nil |-> FALSE, pts |-> Line(f, depth)]

\* Points returns the points for a given depth: nil beyond Depth or below 0,
\* a fresh one-point slice at depth 0, the slice lines[depth] otherwise.
Points(f, depth) ==
    IF depth > f.Depth \/ depth < 0
    THEN [nil |-> TRUE, pts |-> <<>>]
    ELSE IF depth = 0
         THEN [nil |-> FALSE, pts |-> <<UnitPoint>>]
         ELSE [nil |-> FALSE, pts |-> Line(f, depth)]

\* Partial without "dest[i] = p" for the colour: the segment's colour is added
\* to what dest[i] already holds.
PartialAccumulate(f, p0, p1, dest) ==
    LET flipY == HasFlag(p1.Flags, FlipY)
        flipX == HasFlag(p1.Flags, FlipX)
        a == NewAffineBetween(p0, p1)
        base == IF flipX THEN f.Inverse ELSE f.Base
    IN [i \in 1..Len(base) |->
          LET p == IF flipY THEN [base[i] EXCEPT !.Y = 0 - base[i].Y] ELSE base[i]
              v == Project(a, Vec(p.X, p.Y))
              c == IF ~HasFlag(p.Flags, FixedC) THEN Int16(dest[i].Color + p1.Color)
                   ELSE dest[i].Color
          IN [X |-> v.X, Y |-> v.Y,
              Flags |-> XorFlips(p.Flags, p1.Flags),
              Color |-> modPlus(c, ColorRange)]]

\* Partial adding the end point's colour whether or not the template point has
\* FixedC.
PartialInheritsAlways(f, p0, p1, dest) ==
    LET flipY == HasFlag(p1.Flags, FlipY)
        flipX == HasFlag(p1.Flags, FlipX)
        a == NewAffineBetween(p0, p1)
        base == IF flipX THEN f.Inverse ELSE f.Base
    IN [i \in 1..Len(base) |->
          LET p == IF flipY THEN [base[i] EXCEPT !.Y = 0 - base[i].Y] ELSE base[i]
              v == Project(a, Vec(p.X, p.Y))
              c == Int16(p.Color + p1.Color)
          IN [X |-> v.X, Y |-> v.Y,
              Flags |-> XorFlips(p.Flags, p1.Flags),
              Color |-> modPlus(c, ColorRange)]]

\* Partial without the last modPlus: the colour sum is stored as it is.
PartialKeepsSum(f, p0, p1, dest) ==
    LET flipY == HasFlag(p1.Flags, FlipY)
        flipX == HasFlag(p1.Flags, FlipX)
        a == NewAffineBetween(p0, p1)
        base == IF flipX THEN f.Inverse ELSE f.Base
    IN [i \in 1..Len(base) |->
          LET p == IF flipY THEN [base[i] EXCEPT !.Y = 0 - base[i].Y] ELSE base[i]
              v == Project(a, Vec(p.X, p.Y))
              c == IF ~HasFlag(p.Flags, FixedC) THEN Int16(p.Color + p1.Color)
                   ELSE p.Color
          IN [X |-> v.X, Y |-> v.Y,
              Flags |-> XorFlips(p.Flags, p1.Flags),
              Color |-> c]]

\* Partial with FlipY negating X instead of Y.
PartialNegatesX(f, p0, p1, dest) ==
    LET flipY == HasFlag(p1.Flags, FlipY)
        flipX == HasFlag(p1.Flags, FlipX)
        a == NewAffineBetween(p0, p1)
        base == IF flipX THEN f.Inverse ELSE f.Base
    IN [i \in 1..Len(base) |->
          LET p == IF flipY THEN [base[i] EXCEPT !.X = 0 - base[i].X] ELSE base[i]
              v == Project(a, Vec(p.X, p.Y))
              c == IF ~HasFlag(p.Flags, FixedC) THEN Int16(p.Color + p1.Color)
                   ELSE p.Color
          IN [X |-> v.X, Y |-> v.Y,
              Flags |-> XorFlips(p.Flags, p1.Flags),
              Color |-> modPlus(c, ColorRange)]]

\* Partial computes the points interpolated from a single point pair: the new
\* contents of dest (dest[i] = p overwrites what dest[i] held).
Partial(f, p0, p1, dest) ==
    LET flipY == HasFlag(p1.Flags, FlipY)
        flipX == HasFlag(p1.Flags, FlipX)
        a == NewAffineBetween(p0, p1)
        base == IF flipX THEN f.Inverse ELSE f.Base
    IN [i \in 1..Len(base) |->
          LET p == IF flipY THEN [base[i] EXCEPT !.Y = 0 - base[i].Y] ELSE base[i]
              v == Project(a, Vec(p.X, p.Y))
              c == IF ~HasFlag(p.Flags, FixedC) THEN Int16(p.Color + p1.Color)
                   ELSE p.Color
          IN [X |-> v.X, Y |-> v.Y,
              Flags |-> XorFlips(p.Flags, p1.Flags),
              Color |-> modPlus(c, ColorRange)]]

SetMin(S) == CHOOSE x \in S : \A y \in S : x <= y

SetMax(S) == 0 - SetMin({0 - x : x \in S})

\* BoundsAt computes the bounds of one tier, seeded with (0,0)-(1,0).  Min never
\* exceeds Max, so of each "if p < Min .. else if p > Max" at most one branch
\* applies and the loop yields the least and greatest coordinate with the seed.
BoundsAt(f, depth) ==
    LET w == f.lines[depth + 1]
        xs == {f.data[k].X : k \in (w.lo + 1)..w.hi}
        ys == {f.data[k].Y : k \in (w.lo + 1)..w.hi}
    IN [Min |-> Vec(SetMin(xs \cup {0}), SetMin(ys \cup {0})),
        Max |-> Vec(SetMax(xs \cup {Unit}), SetMax(ys \cup {0}))]

\* data with the Go cells lo .. lo+Len(pts)-1 replaced by pts.
WriteAt(data, lo, pts) ==
    SubSeq(data, 1, lo) \o pts \o SubSeq(data, lo + Len(pts) + 1, Len(data))

\* The depth == 1 branch of Render: a copy of Base with the colour cleared
\* (kept, reduced, under FixedC).
RenderOne(f) ==
    IF Len(f.lines) < 2 THEN [f EXCEPT !.panic = "Render: lines[1]"]
    ELSE IF Len(f.Base) > LineLen(f, 1) THEN [f EXCEPT !.panic = "Render: dest[i]"]
    ELSE LET dest == [i \in 1..Len(f.Base) |->
                        [f.Base[i] EXCEPT !.Color =
                            IF HasFlag(f.Base[i].Flags, FixedC)
                            THEN modPlus(f.Base[i].Color, ColorRange) ELSE 0]]
         IN [f EXCEPT !.data = WriteAt(f.data, f.lines[2].lo, dest),
                      !.Depth = IF f.Depth < 1 THEN 1 ELSE f.Depth,
                      !.rendered = f.rendered \cup {1}]

\* The loop of Render with "prev = src[p]" left out: every segment starts at
\* the origin.
RenderLoopFromOrigin(f, src, dest) ==
    LET l == Len(f.Base)
        segs == [p \in 1..Len(src) |->
                    Partial(f, ZeroPoint, src[p], SubSeq(dest, (p - 1) * l + 1, p * l))]
    IN [k \in 1..(Len(src) * l) |-> segs[((k - 1) \div l) + 1][((k - 1) % l) + 1]]

\* The loop of Render stopping after the first segment: the rest of dest is
\* left as it was.
RenderLoopFirstOnly(f, src, dest) ==
    LET l == Len(f.Base)
        first == Partial(f, ZeroPoint, src[1], SubSeq(dest, 1, l))
    IN [k \in 1..(Len(src) * l) |-> IF k <= l THEN first[k] ELSE dest[k]]

\* The loop of Render: segment p runs from src[p-1] (the origin before the
\* first) to src[p], and Partial fills dest[(p-1)*l .. p*l-1].  The result is
\* what the loop leaves in dest[0 .. len(src)*l-1].  The slices of two depths
\* never overlap, so the loop never reads a cell it has written.
RenderLoop(f, src, dest) ==
    LET l == Len(f.Base)
        segs == [p \in 1..Len(src) |->
                    Partial(f, IF p = 1 THEN ZeroPoint ELSE src[p - 1], src[p],
                            SubSeq(dest, (p - 1) * l + 1, p * l))]
    IN [k \in 1..(Len(src) * l) |-> segs[((k - 1) \div l) + 1][((k - 1) % l) + 1]]

\* The general branch of Render with "f.Depth = depth" unguarded.
RenderFromSetsDepth(f, depth, src) ==
    LET w == f.lines[depth + 1]
        l == Len(f.Base)
        n == Len(src)
    IN IF w.lo + n * l > Len(f.data)
       THEN [f EXCEPT !.panic = "Render: dest[offset:offset+l]"]
       ELSE LET dest == SubSeq(f.data, w.lo + 1, w.lo + n * l)
                g == [f EXCEPT !.data = WriteAt(f.data, w.lo, RenderLoop(f, src, dest))]
            IN [g EXCEPT !.Bounds = Union(f.Bounds, BoundsAt(g, depth)),
                         !.Depth = depth,
                         !.rendered = f.rendered \cup {depth}]

\* The general branch of Render, src non-nil.
RenderFrom(f, depth, src) ==
    LET w == f.lines[depth + 1]
        l == Len(f.Base)
        n == Len(src)
    IN IF w.lo + n * l > Len(f.data)
       THEN [f EXCEPT !.panic = "Render: dest[offset:offset+l]"]
       ELSE LET dest == SubSeq(f.data, w.lo + 1, w.lo + n * l)
                g == [f EXCEPT !.data = WriteAt(f.data, w.lo, RenderLoop(f, src, dest))]
            IN [g EXCEPT !.Bounds = Union(f.Bounds, BoundsAt(g, depth)),
                         !.Depth = IF f.Depth < depth THEN depth ELSE f.Depth,
                         !.rendered = f.rendered \cup {depth}]

\* Render reading lines[depth-1] itself instead of asking Points for it.
RenderUnchecked(f, depth) ==
    IF Panicked(f) THEN [f |-> f, ok |-> FALSE]
    ELSE IF depth = 0 THEN [f |-> [f EXCEPT !.rendered = f.rendered \cup {0}], ok |-> TRUE]
    ELSE IF depth = 1 THEN [f |-> RenderOne(f), ok |-> TRUE]
    ELSE IF depth > 0 /\ depth < f.MaxDepth
         THEN [f |-> RenderFrom(f, depth, Line(f, depth - 1)), ok |-> TRUE]
         ELSE [f |-> f, ok |-> FALSE]

\* Render computes the points for a given depth, if the previous line is
\* filled in.  The result is the Fractal afterwards and the returned bool.
Render(f, depth) ==
    IF Panicked(f) THEN [f |-> f, ok |-> FALSE]
    ELSE IF depth = 0 THEN [f |-> [f EXCEPT !.rendered = f.rendered \cup {0}], ok |-> TRUE]
    ELSE IF depth = 1 THEN [f |-> RenderOne(f), ok |-> TRUE]
    ELSE LET src == IF depth > 0 /\ depth < f.MaxDepth
                    THEN Points(f, depth - 1)
                    ELSE [nil |-> TRUE, pts |-> <<>>]
         IN IF src.nil THEN [f |-> f, ok |-> FALSE]
            ELSE [f |-> RenderFrom(f, depth, src.pts), ok |-> TRUE]

\* The inverted base with each point mirrored at its own position instead of
\* its predecessor's.
InverseOfOwn(base) ==
    LET l == Len(base)
    IN [j \in 1..l |->
          [base[l - j + 1] EXCEPT !.X = Unit - base[l - j + 1].X]]

\* The inverted base computed by Changed: Inverse[len-1-i] is Base[i] placed at
\* (1 - Base[i-1].X, Base[i-1].Y), with the origin before the first point.
InverseOf(base) ==
    LET l == Len(base)
        at(i) == IF i = 0 THEN ZeroVec ELSE Vec(base[i].X, base[i].Y)
    IN [j \in 1..l |->
          [base[l - j + 1] EXCEPT !.X = Unit - at(l - j).X, !.Y = at(l - j).Y]]

\* Render(0), ..., Render(upto) in order, results ignored.
RECURSIVE RenderUpTo(_, _, _)
RenderUpTo(f, d, upto) ==
    IF d > upto THEN f ELSE RenderUpTo(Render(f, d).f, d + 1, upto)

\* Changed without "f.Depth = 0": Depth is kept, as far as the buffers go.
ChangedKeepDepth(f) ==
    IF Panicked(f) THEN f
    ELSE RenderUpTo([f EXCEPT !.Inverse = InverseOf(f.Base),
                              !.Depth = Min2(f.Depth, f.MaxDepth - 1),
                              !.Bounds = BaseSpan,
                              !.rendered = {},
                              !.chg = TRUE],
                    0, EagerDepth)

\* Changed rendering one depth fewer: Render(0) .. Render(4).
ChangedShort(f) ==
    IF Panicked(f) THEN f
    ELSE RenderUpTo([f EXCEPT !.Inverse = InverseOf(f.Base),
                              !.Depth = 0,
                              !.Bounds = BaseSpan,
                              !.rendered = {},
                              !.chg = TRUE],
                    0, EagerDepth - 1)

\* Changed causes re-rendering of a fractal.
Changed(f) ==
    IF Panicked(f) THEN f
    ELSE RenderUpTo([f EXCEPT !.Inverse = InverseOf(f.Base),
                              !.Depth = 0,
                              !.Bounds = BaseSpan,
                              !.rendered = {},
                              !.chg = TRUE],
                    0, EagerDepth)

\* The first loop of Alloc with the cap tested on the total alone, without the
\* size of the next depth.
RECURSIVE AllocLoopLate(_, _, _, _, _, _, _)
AllocLoopLate(i, total, size, totals, maxDepth, l, limit) ==
    IF ~(i < maxDepth) THEN [total |-> total, totals |-> totals, maxDepth |-> maxDepth]
    ELSE LET total2 == total + size
             size2 == size * l
         IN AllocLoopLate(i + 1, total2, size2, Append(totals, total2),
                          IF total2 > limit THEN i + 1 ELSE maxDepth,
                          l, limit)

\* The first loop of Alloc at index i: the running total, the size of the next
\* depth, the totals so far and f.MaxDepth, which the loop itself lowers.
RECURSIVE AllocLoop(_, _, _, _, _, _, _)
AllocLoop(i, total, size, totals, maxDepth, l, limit) ==
    IF ~(i < maxDepth) THEN [total |-> total, totals |-> totals, maxDepth |-> maxDepth]
    ELSE LET total2 == total + size
             size2 == size * l
         IN AllocLoop(i + 1, total2, size2, Append(totals, total2),
                      IF total2 + size2 > limit THEN i + 1 ELSE maxDepth,
                      l, limit)

\* The first loop of Alloc for a base of l points: MaxDepth, Total and totals.
AllocSizes(l, maxOOM) == AllocLoop(0, 0, 1, <<>>, DepthCap, l, Pow2(maxOOM))

\* Alloc with prev never advanced: every slice starts at data[0].
AllocLayoutFromZero(f) ==
    LET r == AllocSizes(Len(f.Base), f.MaxOOM)
        lines == [i \in 1..r.maxDepth |-> [lo |-> 0, hi |-> r.totals[i]]]
    IN IF \E i \in 1..r.maxDepth : r.totals[i] > Len(f.data)
       THEN [f EXCEPT !.MaxDepth = r.maxDepth, !.Total = r.total,
                      !.alloced = TRUE,
                      !.panic = "Alloc: data[prev:totals[i]]"]
       ELSE [f EXCEPT !.MaxDepth = r.maxDepth, !.Total = r.total, !.lines = lines,
                      !.alloced = TRUE]

\* Alloc up to its call of Changed: MaxDepth, Total and the slices of data.
AllocLayout(f) ==
    LET r == AllocSizes(Len(f.Base), f.MaxOOM)
        lines == [i \in 1..r.maxDepth |->
                    [lo |-> IF i = 1 THEN 0 ELSE r.totals[i - 1], hi |-> r.totals[i]]]
    IN IF \E i \in 1..r.maxDepth : r.totals[i] > Len(f.data)
       THEN [f EXCEPT !.MaxDepth = r.maxDepth, !.Total = r.total,
                      !.alloced = TRUE,
                      !.panic = "Alloc: data[prev:totals[i]]"]
       ELSE [f EXCEPT !.MaxDepth = r.maxDepth, !.Total = r.total, !.lines = lines,
                      !.alloced = TRUE]

\* Alloc reallocates the fractal's point/line storage.
Alloc(f) == IF Panicked(f) THEN f ELSE Changed(AllocLayout(f))

\* ------------------------------------------------------------- colours
\* Go's x / y on integers for y > 0: the quotient is truncated towards zero.
GoQuo(x, y) == IF x >= 0 THEN x \div y ELSE 0 - ((0 - x) \div y)

\* satMod(x,y) yields y-1 for x >= y, otherwise the positive remainder of x/y.
satMod(x, y) ==
    IF x >= y THEN Int16(y - 1)
    ELSE IF x < 0 THEN Int16(GoRem(x, y) + y)
    ELSE x

\* The channels of rgb by sector q from c, x and 0.
rgbSector(q, c, x) ==
    IF q = 0 THEN <<c, x, 0>>
    ELSE IF q = 1 THEN <<x, c, 0>>
    ELSE IF q = 2 THEN <<0, c, x>>
    ELSE IF q = 3 THEN <<0, x, c>>
    ELSE IF q = 4 THEN <<x, 0, c>>
    ELSE IF q = 5 THEN <<c, 0, x>>
    ELSE <<0, 0, 0>>

\* rgb with x negated in the odd sectors.
rgbNegates(h, s, v) ==
    LET h1 == modPlus(h, 360)
        q == GoQuo(h1, 60)
        hp == GoRem(h1, 60)
        s1 == satMod(s, 256)
        v1 == satMod(v, 256)
        c == Int16(GoQuo(s1 * v1, 255))
        m == Int16(v1 - c)
        x0 == GoQuo(Int16(c * hp), 60)
        x == IF q % 2 = 1 THEN Int16(0 - x0) ELSE x0
        t == rgbSector(q, c, x)
    IN <<Int16(t[1] + m), Int16(t[2] + m), Int16(t[3] + m)>>

\* r, g, b = rgb(h, s, v), all int16.
rgb(h, s, v) ==
    LET h1 == modPlus(h, 360)
        q == GoQuo(h1, 60)
        hp == GoRem(h1, 60)
        s1 == satMod(s, 256)
        v1 == satMod(v, 256)
        c == Int16(GoQuo(s1 * v1, 255))
        m == Int16(v1 - c)
        x0 == GoQuo(Int16(c * hp), 60)
        x == IF q % 2 = 1 THEN Int16(c - x0) ELSE x0
        t == rgbSector(q, c, x)
    IN <<Int16(t[1] + m), Int16(t[2] + m), Int16(t[3] + m)>>

\* f.colorTab as NewFractal fills it: entry i is rgb(i*360/1024, 255, 255),
\* each channel over 255.
NewColorTab == [i \in 0..(ColorRange - 1) |-> rgb((i * 360) \div ColorRange, 255, 255)]

\* NewFractal before its call of Alloc.
NewFields(base, maxOOM, data) ==
    [Base |-> base, Inverse |-> <<>>, MaxOOM |-> maxOOM, MaxDepth |-> 0,
     Total |-> 0, selectedPoint |-> 0 - 1, Depth |-> 1, data |-> data,
     lines |-> <<>>, Bounds |-> [Min |-> ZeroVec, Max |-> ZeroVec],
     colorTab |-> NewColorTab,
     panic |-> "", rendered |-> {}, chg |-> FALSE, alloced |-> FALSE]

\* NewFractal allocates a fractal.
NewFractal(base, maxOOM) ==
    Alloc(NewFields(base, maxOOM,
                    [k \in 1..Pow2(maxOOM) |-> IF k = 1 THEN UnitPoint ELSE ZeroPoint]))

\* SelectPoint marks a given point as the current selected point.
SelectPoint(f, index) ==
    IF Panicked(f) THEN f
    ELSE IF index >= 0 /\ index < Len(f.Base)
         THEN [f EXCEPT !.selectedPoint = index]
         ELSE [f EXCEPT !.selectedPoint = 0 - 1]

\* The guard shared by Toggle, ColorChange, XChange and YChange.
NoSelection(f) == f.selectedPoint < 0 \/ f.selectedPoint >= Len(f.Base)

\* Toggle re-rendering even when it has no point to toggle.
ToggleRerenders(f, flag) ==
    IF Panicked(f) THEN f
    ELSE IF NoSelection(f) THEN Changed(f)
    ELSE LET s == f.selectedPoint + 1
             g == [f EXCEPT !.Base[s].Flags = XorFlag(f.Base[s].Flags, flag)]
         IN Changed(SelectPoint(g, g.selectedPoint))

\* Toggle setting the bit instead of flipping it.
ToggleSets(f, flag) ==
    IF Panicked(f) \/ NoSelection(f) THEN f
    ELSE LET s == f.selectedPoint + 1
             g == [f EXCEPT !.Base[s].Flags =
                       IF HasFlag(f.Base[s].Flags, flag) THEN @ ELSE @ + flag]
         IN Changed(SelectPoint(g, g.selectedPoint))

\* Toggle toggles the selected flag bit.
Toggle(f, flag) ==
    IF Panicked(f) \/ NoSelection(f) THEN f
    ELSE LET s == f.selectedPoint + 1
             g == [f EXCEPT !.Base[s].Flags = XorFlag(f.Base[s].Flags, flag)]
         IN Changed(SelectPoint(g, g.selectedPoint))

\* ColorChange adds an amount to the color trait of the point.
ColorChange(f, amt) ==
    IF Panicked(f) \/ NoSelection(f) THEN f
    ELSE LET s == f.selectedPoint + 1
             c == GoRem(Int16(f.Base[s].Color + Int16(amt)), ColorRange)
             g == [f EXCEPT !.Base[s].Color = c]
         IN Changed(SelectPoint(g, g.selectedPoint))

\* XChange, were it to end with Alloc() as AddPoint does.
XChangeAllocs(f, amt) ==
    IF Panicked(f) \/ NoSelection(f) THEN f
    ELSE LET s == f.selectedPoint + 1
             g == [f EXCEPT !.Base[s].X = f.Base[s].X + amt]
         IN Alloc(SelectPoint(g, g.selectedPoint))

\* XChange adds an amount to the X of the point.
XChange(f, amt) ==
    IF Panicked(f) \/ NoSelection(f) THEN f
    ELSE LET s == f.selectedPoint + 1
             g == [f EXCEPT !.Base[s].X = f.Base[s].X + amt]
         IN Changed(SelectPoint(g, g.selectedPoint))

\* YChange adds an amount to the Y of the point.
YChange(f, amt) ==
    IF Panicked(f) \/ NoSelection(f) THEN f
    ELSE LET s == f.selectedPoint + 1
             g == [f EXCEPT !.Base[s].Y = f.Base[s].Y + amt]
         IN Changed(SelectPoint(g, g.selectedPoint))

\* AddPoint putting the new point after the selected one.
AddPointAfter(f) ==
    IF Panicked(f) \/ Len(f.Base) >= AddLimit \/ NoSelection(f) THEN f
    ELSE LET s == f.selectedPoint + 1
             p == f.Base[s]
             prev == IF s = 1 THEN ZeroPoint ELSE f.Base[s - 1]
             newPoint == [p EXCEPT !.X = (p.X + prev.X) \div 2,
                                   !.Y = (p.Y + prev.Y) \div 2]
             newbase == SubSeq(f.Base, 1, s) \o <<newPoint>>
                        \o SubSeq(f.Base, s + 1, Len(f.Base))
         IN Alloc([f EXCEPT !.Base = newbase])

\* AddPoint divides the line segment ending in the currently selected point
\* in half.
AddPoint(f) ==
    IF Panicked(f) \/ Len(f.Base) >= AddLimit \/ NoSelection(f) THEN f
    ELSE LET s == f.selectedPoint + 1
             p == f.Base[s]
             prev == IF s = 1 THEN ZeroPoint ELSE f.Base[s - 1]
             newPoint == [p EXCEPT !.X = (p.X + prev.X) \div 2,
                                   !.Y = (p.Y + prev.Y) \div 2]
             newbase == SubSeq(f.Base, 1, s - 1) \o <<newPoint>>
                        \o SubSeq(f.Base, s, Len(f.Base))
         IN Alloc([f EXCEPT !.Base = newbase])

\* DelPoint refusing only below two points.
DelPointBelowTwo(f) ==
    IF Panicked(f) \/ Len(f.Base) < DelLimit - 1 \/ f.selectedPoint < 0
       \/ f.selectedPoint > Len(f.Base)
    THEN f
    ELSE IF f.selectedPoint = Len(f.Base)
         THEN [f EXCEPT !.panic = "DelPoint: newbase[j]"]
         ELSE LET s == f.selectedPoint + 1
                  newbase == SubSeq(f.Base, 1, s - 1) \o SubSeq(f.Base, s + 1, Len(f.Base))
              IN Alloc([f EXCEPT !.Base = newbase])

\* DelPoint deletes the currently selected point.  Its guard lets
\* selectedPoint = len(Base) through; the copy loop then keeps every point and
\* writes past the end of newbase.
DelPoint(f) ==
    IF Panicked(f) \/ Len(f.Base) < DelLimit \/ f.selectedPoint < 0
       \/ f.selectedPoint > Len(f.Base)
    THEN f
    ELSE IF f.selectedPoint = Len(f.Base)
         THEN [f EXCEPT !.panic = "DelPoint: newbase[j]"]
         ELSE LET s == f.selectedPoint + 1
                  newbase == SubSeq(f.Base, 1, s - 1) \o SubSeq(f.Base, s + 1, Len(f.Base))
              IN Alloc([f EXCEPT !.Base = newbase])

\* --------------------------------------------------------------- run state
\* Mouse activity states of a UIElement.
Unpressed == 0
Pressed == 1

\* The buttons run() creates, by the name they have in UIElements.
Elements ==
    {"AddPoint", "DelPoint", "FlipX", "FlipY", "Hide", "Prune", "FixC",
     "<<", "<", ">", ">>", "+X", "-X", "+Y", "-Y"}

\* UIElement.enabled: button() makes every element enabled, and the program
\* calls SetEnabled with true only.
enabled(e) == e \in Elements

\* The callback run() gives each button.  The step .005 of the X and Y buttons
\* is Step in 1/Unit.
Callback(e, f) ==
    CASE e = "AddPoint" -> AddPoint(f)
      [] e = "DelPoint" -> DelPoint(f)
      [] e = "FlipX" -> Toggle(f, FlipX)
      [] e = "FlipY" -> Toggle(f, FlipY)
      [] e = "Hide" -> Toggle(f, Hide)
      [] e = "Prune" -> Toggle(f, Prune)
      [] e = "FixC" -> Toggle(f, FixedC)
      [] e = "<<" -> ColorChange(f, 0 - 16)
      [] e = "<" -> ColorChange(f, 0 - 1)
      [] e = ">" -> ColorChange(f, 1)
      [] e = ">>" -> ColorChange(f, 16)
      [] e = "+X" -> XChange(f, 0 - Step)
      [] e = "-X" -> XChange(f, Step)
      [] e = "+Y" -> YChange(f, 0 - Step)
      [] e = "-Y" -> YChange(f, Step)

VARIABLES
    frac,        \* the Fractal (var frac *Fractal)
    dragging,    \* run(): a point is being dragged
    dragStart,   \* run(): the mouse position, unprojected, at the press
    dragPoint,   \* run(): the position of the dragged point at the press
    lastDrag,    \* run(): the last mouse position the drag handled
    uiState,     \* UIElement.state of each button
    mouseDown,   \* the left mouse button is held (the window's input state)
    fracPortScale, \* run(): the zoom counter
    fracRect,    \* run(): the rectangle of the fractal shown, of which
                 \* fracMatrix is the transform onto fracPortRect
    edits,       \* number of steps so far that changed Base
    alloc,       \* the sizes the last run of Alloc computed
    calc         \* a call of a helper function: its name, arguments and result

vars == <<frac, dragging, dragStart, dragPoint, lastDrag, uiState, mouseDown,
          fracPortScale, fracRect, edits, alloc, calc>>

\* No helper function is being followed.
NoCalc == [fn |-> "", args |-> <<>>, done |-> FALSE, out |-> <<>>]

runVars == <<dragging, dragStart, dragPoint, lastDrag, uiState, mouseDown,
            fracPortScale, fracRect>>

\* The sizes Alloc computes for a base of l points.
AllocOf(l, maxOOM) ==
    LET r == AllocSizes(l, maxOOM)
    IN [l |-> l, MaxOOM |-> maxOOM, MaxDepth |-> r.maxDepth, Total |-> r.total]

\* The same sizes as a Fractal holds them.
AllocIn(f) ==
    [l |-> Len(f.Base), MaxOOM |-> f.MaxOOM, MaxDepth |-> f.MaxDepth, Total |-> f.Total]

\* ------------------------------------------------------------------ inputs
\* The base run() starts from, (.05,.25) (.95,-.25) (1,0) with colours 0, 128
\* and 256, on the grid.
RunBase ==
    <<Pt(0, Unit \div 4, 0, 0), Pt(Unit, 0 - (Unit \div 4), 0, 128), Pt(Unit, 0, 0, 256)>>

\* A two-point base with flip and fixed-colour flags set.
FlagBase ==
    <<Pt(Unit \div 2, Unit \div 2, FlipX, 1000), Pt(Unit, 0, FixedC + FlipY, 40)>>

\* A base of the largest size AddPoint allows.
SixBase ==
    <<Pt(0, 1, 0, 0), Pt(1, 1, FlipY, 3), Pt(2, 0, 0, 0), Pt(2, 0 - 1, FlipX, 0),
      Pt(3, 0, 0, 0), Pt(Unit, 0, 0, 7)>>

\* The arguments NewFractal is given: a base and MaxOOM.  With MaxOOM = 2 the
\* three-point base has room for two depths and a four-point base for one.
InitConfigs == {<<FlagBase, 8>>, <<RunBase, 4>>, <<SixBase, 5>>, <<RunBase, 2>>}

\* The arguments of run()'s call of NewFractal, with a smaller MaxOOM.
RunConfigs == {<<RunBase, 8>>}

ToggleFlags == {FlipX, FlipY, FixedC}

ColorAmts == {0 - 48, 0 - 16, 1}

MoveAmts == {0 - Step, Step}

\* Mouse positions in the fractal area, as fractal coordinates.
CanvasPts == {Vec(0, Unit \div 4), Vec(Unit, 0), Vec(Unit \div 2, Unit \div 2), Vec(Unit, 1)}

\* The mouse of one frame: its position unprojected to fractal coordinates,
\* the button it is over (if any) and whether it is in the canvas space
\* (canPos.X >= 0).  The buttons lie left of the canvas space.
MousePlaces ==
    {[at |-> c, over |-> "", canvas |-> TRUE] : c \in CanvasPts}
    \cup {[at |-> Vec(0 - Unit, 0), over |-> e, canvas |-> FALSE] : e \in Elements \cup {""}}

\* Depth arguments tried for Render: a negative one, the first depths, those
\* around Depth and MaxDepth.
DepthArgs(f) == {0 - 1, 0, 1, 2, f.Depth, f.Depth + 1, f.Depth + 2, f.MaxDepth}

\* ------------------------------------------------- float64 values, exactly
\* A float64 is held as the fraction n/d with d > 0; d = 0 stands for a value
\* that is not finite: n # 0 for an infinity, n = 0 for NaN.
RECURSIVE Gcd(_, _)
Gcd(a, b) == IF b = 0 THEN a ELSE Gcd(b, a % b)

Abs(x) == IF x < 0 THEN 0 - x ELSE x

\* The fraction in lowest terms.
Rat(n, d) ==
    IF d = 0 THEN [n |-> IF n > 0 THEN 1 ELSE IF n < 0 THEN 0 - 1 ELSE 0, d |-> 0]
    ELSE LET g == Gcd(Abs(n), Abs(d))
         IN [n |-> n \div g, d |-> d \div g]

RatInt(x) == Rat(x, 1)

RatFinite(a) == a.d # 0

RatAdd(a, b) == Rat(a.n * b.d + b.n * a.d, a.d * b.d)

RatSub(a, b) == Rat(a.n * b.d - b.n * a.d, a.d * b.d)

RatMul(a, b) == Rat(a.n * b.n, a.d * b.d)

\* a / b; a division by zero gives a value that is not finite.
RatDiv(a, b) ==
    IF b.n < 0 THEN Rat(0 - (a.n * b.d), 0 - (a.d * b.n))
    ELSE Rat(a.n * b.d, a.d * b.n)

\* a == b and a < b on float64: false when either side is NaN.
RatEq(a, b) == RatFinite(a) /\ RatFinite(b) /\ a.n * b.d = b.n * a.d

RatLess(a, b) == RatFinite(a) /\ RatFinite(b) /\ a.n * b.d < b.n * a.d

\* pixel.Vec and pixel.Rect with float64 coordinates.
RatVec(v) == [X |-> RatInt(v.X), Y |-> RatInt(v.Y)]

RatRect(r) == [Min |-> RatVec(r.Min), Max |-> RatVec(r.Max)]

\* pixel.Rect.Size, .W and .H
RectSize(r) == [X |-> RatSub(r.Max.X, r.Min.X), Y |-> RatSub(r.Max.Y, r.Min.Y)]

\* math.Pow(0.95, scale)
RECURSIVE Pow95(_)
Pow95(scale) ==
    IF scale = 0 THEN RatInt(1)
    ELSE IF scale > 0 THEN RatMul(Rat(19, 20), Pow95(scale - 1))
    ELSE RatMul(Rat(20, 19), Pow95(scale + 1))

\* The first step of AdjustedBounds with all of the padding put on the Max
\* side.
AdjustedBoundsPadMax(f, r0) ==
    LET s0 == RectSize(RatRect(r0))
        portRatio == RatDiv(s0.X, s0.Y)
        r == RatRect(f.Bounds)
        size == RectSize(r)
    IN IF size.Y.n = 0 \/ RatLess(portRatio, RatDiv(size.X, size.Y))
       THEN LET dy == RatSub(RatDiv(size.X, portRatio), size.Y)
            IN [r EXCEPT !.Max.Y = RatAdd(r.Max.Y, dy)]
       ELSE LET dx == RatSub(RatMul(size.Y, portRatio), size.X)
            IN [r EXCEPT !.Max.X = RatAdd(r.Max.X, dx)]

\* AdjustedBounds, first step: Bounds padded on one axis to the ratio of r0.
AdjustedBoundsPad(f, r0) ==
    LET s0 == RectSize(RatRect(r0))
        portRatio == RatDiv(s0.X, s0.Y)
        r == RatRect(f.Bounds)
        size == RectSize(r)
        two == RatInt(2)
    IN IF size.Y.n = 0 \/ RatLess(portRatio, RatDiv(size.X, size.Y))
       THEN LET dy == RatSub(RatDiv(size.X, portRatio), size.Y)
            IN [r EXCEPT !.Min.Y = RatSub(r.Min.Y, RatDiv(dy, two)),
                         !.Max.Y = RatAdd(r.Max.Y, RatDiv(dy, two))]
       ELSE LET dx == RatSub(RatMul(size.Y, portRatio), size.X)
            IN [r EXCEPT !.Min.X = RatSub(r.Min.X, RatDiv(dx, two)),
                         !.Max.X = RatAdd(r.Max.X, RatDiv(dx, two))]

\* AdjustedBounds, second step: both axes scaled by 0.95^scale about the
\* centre.
AdjustedBoundsZoom(r, scale) ==
    IF scale = 0 THEN r
    ELSE LET size == RectSize(r)
             by == RatSub(Pow95(scale), RatInt(1))
             dx == RatMul(size.X, by)
             dy == RatMul(size.Y, by)
             two == RatInt(2)
         IN [Min |-> [X |-> RatSub(r.Min.X, RatDiv(dx, two)),
                      Y |-> RatSub(r.Min.Y, RatDiv(dy, two))],
             Max |-> [X |-> RatAdd(r.Max.X, RatDiv(dx, two)),
                      Y |-> RatAdd(r.Max.Y, RatDiv(dy, two))]]

\* AdjustedBounds gives the Bounds padded to the ratio of r0 and zoomed.
AdjustedBounds(f, r0, scale) == AdjustedBoundsZoom(AdjustedBoundsPad(f, r0), scale)

\* NewAffinesBetween: the matrices to and from, each as the scales sx, sy
\* (entries 0 and 3) and the translation tx, ty (entries 4 and 5); the other
\* entries are 0.
AffineOnto(r0, r1) ==
    LET s0 == RectSize(r0)
        s1 == RectSize(r1)
    IN [sx |-> RatDiv(s1.X, s0.X),
        sy |-> RatDiv(s1.Y, s0.Y),
        tx |-> RatSub(r1.Min.X, RatDiv(RatMul(r0.Min.X, s1.X), s0.X)),
        ty |-> RatSub(r1.Min.Y, RatDiv(RatMul(r0.Min.Y, s1.Y), s0.Y))]

NewAffinesBetween(r0, r1) ==
    [to |-> AffineOnto(RatRect(r0), RatRect(r1)),
     from |-> AffineOnto(RatRect(r1), RatRect(r0))]

\* pixel.Matrix.Project for such a matrix.
ProjectRat(m, v) ==
    [X |-> RatAdd(RatMul(m.sx, v.X), m.tx), Y |-> RatAdd(RatMul(m.sy, v.Y), m.ty)]

\* run()'s fracPortRect: the canvas of winScale * canScale = 2000 x 1600
\* pixels less a margin of 5 on every side.
fracPortRect == [Min |-> Vec(5, 5), Max |-> Vec(1995, 1595)]

\* run()'s fracMatrix for a given fracRect: the first result of
\* NewAffinesBetween(fracRect, fracPortRect).
fracMatrix(rect) == AffineOnto(rect, RatRect(fracPortRect))

\* What the mouse wheel gives in one frame (scrolled.Y).
Scrolls == {0 - 1, 0, 1}

\* -------------------------------------------------------------------- Init
\* A program that has made a Fractal and not yet touched the mouse.
Fresh(f) ==
    /\ frac = f
    /\ dragging = FALSE
    /\ dragStart = ZeroVec
    /\ dragPoint = ZeroVec
    /\ lastDrag = ZeroVec
    /\ uiState = [e \in Elements |-> Unpressed]
    /\ mouseDown = FALSE
    /\ fracPortScale = 0
    /\ fracRect = AdjustedBounds(f, fracPortRect, 0)
    /\ edits = 0
    /\ alloc = AllocIn(f)
    /\ calc = NoCalc

Init == \E c \in InitConfigs : Fresh(NewFractal(c[1], c[2]))

\* ------------------------------------------------------- calls on a Fractal
\* The Fractal at the start of a step: the history flag cleared.
Begin(f) == [f EXCEPT !.chg = FALSE, !.alloced = FALSE]

\* A step that leaves the Fractal as f2; it counts as an edit if Base changed.
Commit(f2) ==
    /\ ~Panicked(frac)
    /\ f2.Base = frac.Base \/ edits < MaxEdits
    /\ frac' = f2
    /\ edits' = IF f2.Base = frac.Base THEN edits ELSE edits + 1
    /\ alloc' = AllocIn(f2)
    /\ calc' = calc

CallSelectPoint ==
    \E index \in (0 - 1)..Len(frac.Base) :
        /\ Commit(SelectPoint(Begin(frac), index))
        /\ UNCHANGED runVars

CallToggle ==
    \E flag \in ToggleFlags :
        /\ Commit(Toggle(Begin(frac), flag))
        /\ UNCHANGED runVars

CallColorChange ==
    \E amt \in ColorAmts :
        /\ Commit(ColorChange(Begin(frac), amt))
        /\ UNCHANGED runVars

CallXChange ==
    \E amt \in MoveAmts :
        /\ Commit(XChange(Begin(frac), amt))
        /\ UNCHANGED runVars

CallYChange ==
    \E amt \in MoveAmts :
        /\ Commit(YChange(Begin(frac), amt))
        /\ UNCHANGED runVars

CallAddPoint ==
    /\ Commit(AddPoint(Begin(frac)))
    /\ UNCHANGED runVars

CallDelPoint ==
    /\ Commit(DelPoint(Begin(frac)))
    /\ UNCHANGED runVars

CallRender ==
    \E depth \in DepthArgs(frac) :
        /\ Commit(Render(Begin(frac), depth).f)
        /\ UNCHANGED runVars

\* The write run() makes while a point is dragged: the selected point is
\* moved to v and the fractal re-rendered.
DragTo(f, v) ==
    IF Panicked(f) \/ ~(f.selectedPoint >= 0 /\ f.selectedPoint < Len(f.Base)) THEN f
    ELSE Changed([f EXCEPT !.Base[f.selectedPoint + 1].X = v.X,
                           !.Base[f.selectedPoint + 1].Y = v.Y])

CallDrag ==
    \E v \in CanvasPts :
        /\ Commit(DragTo(Begin(frac), v))
        /\ UNCHANGED runVars

ApiNext ==
    \/ CallSelectPoint
    \/ CallToggle
    \/ CallColorChange
    \/ CallXChange
    \/ CallYChange
    \/ CallAddPoint
    \/ CallDelPoint
    \/ CallRender
    \/ CallDrag

\* The Fractal under any sequence of calls.
Spec == Init /\ [][ApiNext]_vars

\* --------------------------------------------------- Alloc's sizes alone
\* The first loop of Alloc over every base length and MaxOOM up to TopOOM;
\* the Fractal itself is held at a fixed value.
AllocInit ==
    /\ \E l \in 2..AddLimit : \E maxOOM \in 0..TopOOM : alloc = AllocOf(l, maxOOM)
    /\ frac = NewFractal(FlagBase, 4)
    /\ dragging = FALSE
    /\ dragStart = ZeroVec
    /\ dragPoint = ZeroVec
    /\ lastDrag = ZeroVec
    /\ uiState = [e \in Elements |-> Unpressed]
    /\ mouseDown = FALSE
    /\ fracPortScale = 0
    /\ fracRect = AdjustedBounds(frac, fracPortRect, 0)
    /\ edits = 0
    /\ calc = NoCalc

\* Alloc as AddPoint calls it, the base one point longer.
AllocAfterAdd ==
    /\ alloc.l < AddLimit
    /\ alloc' = AllocOf(alloc.l + 1, alloc.MaxOOM)
    /\ UNCHANGED <<frac, runVars, edits, calc>>

\* Alloc as DelPoint calls it, the base one point shorter.
AllocAfterDel ==
    /\ alloc.l >= DelLimit
    /\ alloc' = AllocOf(alloc.l - 1, alloc.MaxOOM)
    /\ UNCHANGED <<frac, runVars, edits, calc>>

AllocNext == AllocAfterAdd \/ AllocAfterDel

AllocSpec == AllocInit /\ [][AllocNext]_vars

\* ------------------------------------------------------------ run()'s loop
\* run()'s local variables and the Fractal at the start of a frame.
Locals ==
    [frac |-> Begin(frac), dragging |-> dragging, dragStart |-> dragStart,
     dragPoint |-> dragPoint, lastDrag |-> lastDrag, uiState |-> uiState,
     fracPortScale |-> fracPortScale, fracRect |-> fracRect]

\* The square of math.Hypot(p - at).
Dist2(p, at) == (p.X - at.X) * (p.X - at.X) + (p.Y - at.Y) * (p.Y - at.Y)

\* The search taking the last of the equally near points.
RECURSIVE HitLoopLast(_, _, _, _, _)
HitLoopLast(base, at, i, leastDist, pidx) ==
    IF i > Len(base) THEN pidx
    ELSE LET dist == Dist2(base[i], at)
         IN IF dist < HitRadius * HitRadius /\ dist <= leastDist
            THEN HitLoopLast(base, at, i + 1, dist, i - 1)
            ELSE HitLoopLast(base, at, i + 1, leastDist, pidx)

\* The search for the clicked point: the nearest point closer than the radius,
\* the first of them on a tie.  Distances are compared by their squares.
RECURSIVE HitLoop(_, _, _, _, _)
HitLoop(base, at, i, leastDist, pidx) ==
    IF i > Len(base) THEN pidx
    ELSE LET dist == Dist2(base[i], at)
         IN IF dist < HitRadius * HitRadius /\ dist < leastDist
            THEN HitLoop(base, at, i + 1, dist, i - 1)
            ELSE HitLoop(base, at, i + 1, leastDist, pidx)

\* fracRect = frac.AdjustedBounds(fracPortRect, fracPortScale), and with it
\* fracMatrix and imd.SetMatrix(fracMatrix).
SetMatrix(r) ==
    [r EXCEPT !.fracRect = AdjustedBounds(r.frac, fracPortRect, r.fracPortScale)]

\* The scroll handling recomputing the transform during a drag as well.
ScrollStepAlways(r, s) ==
    IF Panicked(r.frac) \/ s = 0 THEN r
    ELSE SetMatrix([r EXCEPT !.fracPortScale = r.fracPortScale + s])

\* if scrolled.Y != 0: the zoom counter moves, and outside a drag the
\* transform follows.
ScrollStep(r, s) ==
    IF Panicked(r.frac) \/ s = 0 THEN r
    ELSE LET r2 == [r EXCEPT !.fracPortScale = r.fracPortScale + s]
         IN IF ~r2.dragging THEN SetMatrix(r2) ELSE r2

\* win.JustPressed: a button under the mouse is pressed, or else a click in
\* the canvas space selects the point it hits and starts dragging it.
PressStep(r, m) ==
    IF Panicked(r.frac) THEN r
    ELSE IF m.over \in Elements /\ enabled(m.over)
    THEN [r EXCEPT !.uiState[m.over] = Pressed]
    ELSE IF ~m.canvas THEN r
    ELSE LET pidx == HitLoop(r.frac.Base, m.at, 1, 999999, 0 - 1)
             f2 == SelectPoint(r.frac, pidx)
         IN IF pidx > 0 - 1
            THEN LET p == f2.Base[pidx + 1]
                 IN [r EXCEPT !.frac = f2, !.dragStart = m.at,
                              !.dragPoint = Vec(p.X, p.Y), !.lastDrag = Vec(p.X, p.Y),
                              !.dragging = TRUE]
            ELSE [r EXCEPT !.frac = f2]

\* The loop of win.JustReleased releasing whatever element the mouse is
\* within, Pressed or not.
RECURSIVE ReleaseLoopAnyInside(_, _, _)
ReleaseLoopAnyInside(r, m, S) ==
    IF S = {} \/ Panicked(r.frac) THEN r
    ELSE LET e == CHOOSE x \in S : TRUE
         IN IF m.over = e
            THEN ReleaseLoopAnyInside([r EXCEPT !.uiState[e] = Unpressed,
                                                !.frac = Callback(e, r.frac)],
                                      m, S \ {e})
            ELSE IF r.uiState[e] = Pressed
            THEN ReleaseLoopAnyInside([r EXCEPT !.uiState[e] = Unpressed], m, S \ {e})
            ELSE ReleaseLoopAnyInside(r, m, S \ {e})

\* The loop over UIElements of win.JustReleased, over the elements S still to
\* visit: a Pressed element is released (its callback runs) if the mouse is
\* within its bounds and unpressed otherwise.
RECURSIVE ReleaseLoop(_, _, _)
ReleaseLoop(r, m, S) ==
    IF S = {} \/ Panicked(r.frac) THEN r
    ELSE LET e == CHOOSE x \in S : TRUE
         IN IF r.uiState[e] = Pressed
            THEN ReleaseLoop([r EXCEPT !.uiState[e] = Unpressed,
                                       !.frac = IF m.over = e THEN Callback(e, r.frac)
                                                ELSE r.frac],
                             m, S \ {e})
            ELSE ReleaseLoop(r, m, S \ {e})

\* win.JustReleased
ReleaseStep(r, m) ==
    LET r2 == ReleaseLoop(r, m, Elements)
    IN IF Panicked(r2.frac) THEN r2
       ELSE [(IF r2.dragging THEN SetMatrix(r2) ELSE r2) EXCEPT !.dragging = FALSE]

\* if dragging: the selected point follows the mouse.
DragStep(r, m) ==
    IF Panicked(r.frac) \/ ~r.dragging \/ m.at = r.lastDrag THEN r
    ELSE [r EXCEPT !.frac = DragTo(r.frac,
                                   Vec(r.dragPoint.X + (m.at.X - r.dragStart.X),
                                       r.dragPoint.Y + (m.at.Y - r.dragStart.Y))),
                   !.lastDrag = m.at]

\* The incremental render of a frame.
RenderStep(r) ==
    IF ~Panicked(r.frac) /\ r.frac.Depth < r.frac.MaxDepth - 1 /\ ~r.dragging
    THEN LET r2 == [r EXCEPT !.frac = Render(r.frac, r.frac.Depth + 1).f]
         IN IF Panicked(r2.frac) THEN r2 ELSE SetMatrix(r2)
    ELSE r

\* The colours the drawing of a frame looks up in colorTab: those of every
\* point of the depths 1..Depth.
DrawnColors(f) ==
    UNION {{Points(f, d).pts[j].Color : j \in 1..Len(Points(f, d).pts)} : d \in 1..f.Depth}

\* The drawing of a frame, as far as it can fail: it reads
\* frac.Base[frac.selectedPoint], colorTab[points[j].Color] for the points of
\* every depth, and frac.Points(1)[frac.selectedPoint].
DrawStep(r) ==
    LET f == r.frac
    IN IF Panicked(f) THEN r
       ELSE IF f.selectedPoint >= Len(f.Base)
       THEN [r EXCEPT !.frac.panic = "run: frac.Base[frac.selectedPoint]"]
       ELSE IF \E c \in DrawnColors(f) : c \notin DOMAIN f.colorTab
       THEN [r EXCEPT !.frac.panic = "run: frac.colorTab[points[j].Color]"]
       ELSE IF f.selectedPoint >= 0 /\ f.selectedPoint >= Len(Points(f, 1).pts)
       THEN [r EXCEPT !.frac.panic = "run: line[frac.selectedPoint]"]
       ELSE r

\* A frame from the drag handling on.
FrameTail(r, m) == DrawStep(RenderStep(DragStep(r, m)))

\* The end of a frame that leaves run() as r; it counts as an edit if Base
\* changed.
EndFrame(r) ==
    /\ Commit(r.frac)
    /\ dragging' = r.dragging
    /\ dragStart' = r.dragStart
    /\ dragPoint' = r.dragPoint
    /\ lastDrag' = r.lastDrag
    /\ uiState' = r.uiState
    /\ fracPortScale' = r.fracPortScale
    /\ fracRect' = r.fracRect

\* A frame in which the left button went down.
FramePress ==
    /\ ~mouseDown
    /\ mouseDown' = TRUE
    /\ \E m \in MousePlaces :
          EndFrame(FrameTail(PressStep(ScrollStep(Locals, 0), m), m))

\* A frame in which the left button went up.
FrameRelease ==
    /\ mouseDown
    /\ mouseDown' = FALSE
    /\ \E m \in MousePlaces :
          EndFrame(FrameTail(ReleaseStep(ScrollStep(Locals, 0), m), m))

\* A frame during a drag, the button held.
FrameDrag ==
    /\ dragging
    /\ UNCHANGED mouseDown
    /\ \E m \in MousePlaces : EndFrame(FrameTail(ScrollStep(Locals, 0), m))

\* A frame with no drag in progress and no change of the button: wherever
\* the mouse is, the frame is the same.
FrameIdle ==
    /\ ~dragging
    /\ UNCHANGED mouseDown
    /\ EndFrame(FrameTail(ScrollStep(Locals, 0), CHOOSE m \in MousePlaces : TRUE))

FrameNext == FramePress \/ FrameRelease \/ FrameDrag \/ FrameIdle

\* run() up to its loop for the arguments c of NewFractal: every depth
\* rendered, no point selected.
RunStart(c) ==
    LET f == NewFractal(c[1], c[2])
    IN Fresh(SelectPoint(RenderUpTo(f, 0, f.MaxDepth - 1), 0 - 1))

RunInit == \E c \in RunConfigs : RunStart(c)

\* run() with the mouse wheel at rest: the loop runs for ever, so a frame
\* that has something to do comes.
RunSpec == RunInit /\ [][FrameNext]_vars /\ WF_vars(FrameIdle)

\* ------------------------------------------------- run() with the wheel
\* The wheel movements a frame can see: the zoom counter is followed within
\* -MaxZoom..MaxZoom.
ScrollsNow == {s \in Scrolls \ {0} : fracPortScale + s \in (0 - MaxZoom)..MaxZoom}

\* A frame in which the wheel turned, no drag in progress and the button
\* unchanged.
FrameScroll ==
    /\ ~dragging
    /\ UNCHANGED mouseDown
    /\ \E s \in ScrollsNow :
          EndFrame(FrameTail(ScrollStep(Locals, s), CHOOSE m \in MousePlaces : TRUE))

\* A frame in which the wheel turned during a drag, the mouse held where the
\* drag last saw it.
FrameScrollDrag ==
    /\ dragging
    /\ UNCHANGED mouseDown
    /\ \E s \in ScrollsNow :
          EndFrame(FrameTail(ScrollStep(Locals, s),
                             [at |-> lastDrag, over |-> "", canvas |-> TRUE]))

\* A frame in which the wheel turned and the left button went up.
FrameScrollRelease ==
    /\ mouseDown
    /\ mouseDown' = FALSE
    /\ \E s \in ScrollsNow :
          LET m == [at |-> lastDrag, over |-> "", canvas |-> TRUE]
          IN EndFrame(FrameTail(ReleaseStep(ScrollStep(Locals, s), m), m))

ViewNext == FrameNext \/ FrameScroll \/ FrameScrollDrag \/ FrameScrollRelease

\* run() on a backing array of 2^7 points once the second point has been
\* deleted, every depth rendered and the selection cleared: the two points
\* left have 7 depths, one more than Changed() renders.
ViewInit ==
    LET f == DelPoint(SelectPoint(NewFractal(RunBase, 7), 1))
    IN Fresh(SelectPoint(RenderUpTo(f, 0, f.MaxDepth - 1), 0 - 1))

\* run() with the wheel in use.
ViewSpec == ViewInit /\ [][ViewNext]_vars /\ WF_vars(FrameIdle)

\* ------------------------------------------------------------------ claims
\* The number of points of the depths below d for a base of l points, the sum
\* of l^i over i < d, as far as cap + 1.
RECURSIVE GeoSum(_, _, _)
GeoSum(l, d, cap) ==
    IF d <= 0 THEN 0 ELSE Min2(cap + 1, 1 + l * GeoSum(l, d - 1, cap))

\* C1: after NewFractal and after every Alloc the points of all depths, the
\* sum of L^i over i < MaxDepth, number at most 2^MaxOOM, and every slice of
\* lines lies inside the backing array of 2^MaxOOM points.
TotalWithinMaxOOM ==
    LET limit == Pow2(frac.MaxOOM)
    IN /\ GeoSum(Len(frac.Base), frac.MaxDepth, limit) <= limit
       /\ frac.Total <= limit
       /\ Len(frac.data) = limit
       /\ Len(frac.lines) = frac.MaxDepth
       /\ \A i \in 1..Len(frac.lines) :
            0 <= frac.lines[i].lo /\ frac.lines[i].lo < frac.lines[i].hi
            /\ frac.lines[i].hi <= Len(frac.data)

\* An AddPoint has rerun Alloc: four points in 2^4 leave two depths of three.
TotalWithinMaxOOMSeen ==
    /\ edits = 1
    /\ Len(frac.Base) = 4
    /\ frac.MaxOOM = 4
    /\ frac.MaxDepth = 2
    /\ frac.Total = 5

\* C2: the MaxDepth Alloc computes is the largest D for which the sum of L^i
\* over i < D is at most 2^MaxOOM.
MaxDepthIsLargest ==
    LET limit == Pow2(alloc.MaxOOM)
    IN /\ GeoSum(alloc.l, alloc.MaxDepth, limit) <= limit
       /\ GeoSum(alloc.l, alloc.MaxDepth + 1, limit) > limit

\* C3: Render(d) for d > 0 returns false when depth d-1 has not been rendered
\* since the last Changed(), and every depth from 1 to Depth has been rendered
\* since the last Changed().
RenderNeedsPredecessor ==
    /\ \A d \in DepthArgs(frac) \cup 1..frac.MaxDepth :
         (d > 0 /\ (d - 1) \notin frac.rendered) => ~Render(frac, d).ok
    /\ \A k \in 1..frac.Depth : k \in frac.rendered

\* After an edit Render is refused a depth that Alloc made room for, two above
\* Depth.
RenderNeedsPredecessorSeen ==
    /\ edits = 1
    /\ ~Panicked(frac)
    /\ frac.Depth + 2 < frac.MaxDepth
    /\ (frac.Depth + 1) \notin frac.rendered
    /\ ~Render(frac, frac.Depth + 2).ok

\* What a Fractal newly made from the Base of f holds once rendered up to the
\* Depth of f.
Expansion(f) == RenderUpTo(NewFractal(f.Base, f.MaxOOM), 0, f.Depth)

\* C4: after any edits and Render calls, Points(d) for every d in 1..Depth is
\* the expansion of the current Base, never points computed from an earlier
\* Base.
PointsShowCurrentBase ==
    Panicked(frac)
    \/ LET e == Expansion(frac)
       IN \A d \in 1..frac.Depth :
            ~Points(frac, d).nil /\ Points(frac, d).pts = Points(e, d).pts

\* After an edit the two deepest depths have been rendered again, and the
\* deepest differs from that of the base the run began with.
PointsShowCurrentBaseSeen ==
    /\ edits = 1
    /\ frac.MaxDepth = 8
    /\ frac.Depth = 7
    /\ Points(frac, 7).pts # Points(RenderUpTo(NewFractal(FlagBase, 8), 0, 7), 7).pts

\* C5: Points(0) is exactly one point, at (1,0), whatever the Base.
PointsZeroIsUnit ==
    LET r == Points(frac, 0)
    IN ~r.nil /\ Len(r.pts) = 1 /\ r.pts[1].X = Unit /\ r.pts[1].Y = 0

\* Points(0) after a point has been deleted from the six-point base.
PointsZeroIsUnitSeen ==
    /\ edits = 1
    /\ Len(frac.Base) = 5
    /\ frac.Base[Len(frac.Base)].X = Unit
    /\ Len(Points(frac, 0).pts) = 1

\* C6: Points(depth) is nil above Depth and below 0; for 1 <= depth <= Depth
\* it is the window of that depth in the backing array; no depth it returns is
\* one not rendered since the last Changed().
PointsOnlyRendered ==
    LET l == Len(frac.Base)
        limit == Pow2(frac.MaxOOM)
    IN \A d \in (0 - 2)..(frac.MaxDepth + 1) :
         LET r == Points(frac, d)
         IN /\ (d > frac.Depth \/ d < 0) => r.nil
            /\ (1 <= d /\ d <= frac.Depth) =>
                 /\ ~r.nil
                 /\ r.pts = SubSeq(frac.data, GeoSum(l, d, limit) + 1,
                                   GeoSum(l, d + 1, limit))
            /\ (~r.nil /\ d >= 1) => d \in frac.rendered

\* Depth 6 has been rendered after an edit and depth 7 not yet.
PointsOnlyRenderedSeen ==
    /\ edits = 1
    /\ frac.MaxDepth = 8
    /\ frac.Depth = 6
    /\ ~Points(frac, 6).nil
    /\ Points(frac, 7).nil

\* C7: after every Alloc the window of depth d has len(Base)^d points and
\* starts at the sum of len(Base)^i over i < d; the windows of two depths are
\* disjoint; data[0] stays (1,0).
WindowsTileData ==
    LET l == Len(frac.Base)
        limit == Pow2(frac.MaxOOM)
    IN /\ Len(frac.lines) = frac.MaxDepth
       /\ \A d \in 0..(frac.MaxDepth - 1) :
            /\ frac.lines[d + 1].lo = GeoSum(l, d, limit)
            /\ frac.lines[d + 1].hi - frac.lines[d + 1].lo = l ^ d
       /\ \A d1 \in 0..(frac.MaxDepth - 1) : \A d2 \in (d1 + 1)..(frac.MaxDepth - 1) :
            frac.lines[d1 + 1].hi <= frac.lines[d2 + 1].lo
       /\ frac.data[1] = UnitPoint

\* Alloc after a DelPoint: five points in 2^5 give windows of 1, 5 and 25.
WindowsTileDataSeen ==
    /\ edits = 1
    /\ Len(frac.Base) = 5
    /\ frac.lines = <<[lo |-> 0, hi |-> 1], [lo |-> 1, hi |-> 6], [lo |-> 6, hi |-> 31]>>
    /\ frac.Depth = 2

\* C8: Render(d) called twice in succession leaves the buffers, Bounds and
\* Depth after the second call as they were after the first, for every d in
\* 0..MaxDepth-1.
RenderTwiceSame ==
    \A d \in 0..(frac.MaxDepth - 1) :
        LET r1 == Render(frac, d)
            r2 == Render(r1.f, d)
        IN r1.ok => /\ r2.ok
                    /\ r2.f.data = r1.f.data
                    /\ r2.f.Bounds = r1.f.Bounds
                    /\ r2.f.Depth = r1.f.Depth

\* The deepest depth, holding coloured points, rendered again after an edit.
RenderTwiceSameSeen ==
    /\ edits = 1
    /\ frac.MaxDepth = 8
    /\ frac.Depth = 7
    /\ Render(frac, 7).ok
    /\ \E k \in (frac.lines[8].lo + 1)..frac.lines[8].hi : frac.data[k].Color # 0

\* C9: Depth stays within 0..MaxDepth-1; a successful Render does not lower
\* Depth and raises it by at most one; only a step in which Changed() ran
\* lowers Depth.
DepthMoves ==
    /\ [](/\ 0 <= frac.Depth
          /\ frac.Depth <= frac.MaxDepth - 1
          /\ \A d \in DepthArgs(frac) \cup 0..frac.MaxDepth :
               LET r == Render(frac, d)
               IN r.ok => frac.Depth <= r.f.Depth /\ r.f.Depth <= frac.Depth + 1)
    /\ [][frac'.Depth < frac.Depth => frac'.chg]_vars

\* Render calls alone have raised Depth from where Changed() left it to
\* MaxDepth-1.
DepthMovesSeen ==
    /\ ~frac.chg
    /\ frac.rendered = 0..7
    /\ frac.Depth = frac.MaxDepth - 1
    /\ frac.Depth > EagerDepth

\* C10: with no drag in progress and no input, each frame renders exactly one
\* further depth while Depth is below MaxDepth-1, so the loop goes on to
\* Depth = MaxDepth-1; from then on a frame renders nothing and Depth stays.
RenderReachesMaxDepth ==
    LET r == FrameTail(Locals, CHOOSE m \in MousePlaces : TRUE)
    IN /\ (~dragging /\ frac.Depth < frac.MaxDepth - 1) =>
            /\ ~Panicked(frac)
            /\ ~Panicked(r.frac)
            /\ r.frac.Depth = frac.Depth + 1
       /\ (~dragging /\ ~Panicked(frac) /\ frac.Depth = frac.MaxDepth - 1) =>
            r.frac = Begin(frac)

\* The least and greatest coordinates of the base span and the depths in D of
\* f, as a rectangle.
SpanOf(f, D) ==
    LET bs == {BaseSpan} \cup {BoundsAt(f, d) : d \in D}
    IN [Min |-> Vec(SetMin({b.Min.X : b \in bs}), SetMin({b.Min.Y : b \in bs})),
        Max |-> Vec(SetMax({b.Max.X : b \in bs}), SetMax({b.Max.Y : b \in bs}))]

\* C11: when Changed() has run and returned, Depth is min(5, MaxDepth-1),
\* exactly the depths 0..Depth are rendered, depth 1 is the current Base with
\* its colour cleared (kept under FixedC), each depth from 2 on is the
\* expansion of the depth below it by the current Base and Inverse, Inverse is
\* that of the current Base, and Bounds is the base span joined with the
\* depths rendered from 2 on, whatever Depth and Bounds were before.
ChangedRendersEager ==
    (frac.chg /\ ~Panicked(frac)) =>
        /\ frac.Depth = Min2(5, frac.MaxDepth - 1)
        /\ frac.rendered = 0..frac.Depth
        /\ frac.Inverse = InverseOf(frac.Base)
        /\ Len(Points(frac, 1).pts) = Len(frac.Base)
        /\ \A i \in 1..Len(frac.Base) :
             LET p == Points(frac, 1).pts[i]
                 b == frac.Base[i]
             IN /\ p.X = b.X /\ p.Y = b.Y /\ p.Flags = b.Flags
                /\ p.Color = IF HasFlag(b.Flags, FixedC)
                             THEN modPlus(b.Color, ColorRange) ELSE 0
        /\ \A d \in 2..frac.Depth :
             Points(frac, d).pts
                = RenderLoop(frac, Points(frac, d - 1).pts, Points(frac, d).pts)
        /\ frac.Bounds = SpanOf(frac, 2..frac.Depth)

\* Changed() has just run for an edit of the two-point base: Depth is 5 of 7
\* and Bounds are not those of the base the run began with.
ChangedRendersEagerSeen ==
    /\ frac.chg
    /\ edits = 1
    /\ frac.MaxDepth = 8
    /\ frac.Depth = 5
    /\ frac.Bounds # SpanOf(NewFractal(FlagBase, 8), 2..5)
    /\ frac.Base # FlagBase
    /\ Len(frac.Base) = 2

\* C12: the running Bounds is the union of BoundsAt(d) over every depth d in
\* 0..Depth, depth 1 included, so it contains every point of every rendered
\* depth.
BoundsIsUnion ==
    ~Panicked(frac) =>
        /\ frac.Bounds = SpanOf(frac, 0..frac.Depth)
        /\ \A d \in 1..frac.Depth : \A i \in 1..Len(Points(frac, d).pts) :
             LET p == Points(frac, d).pts[i]
             IN /\ frac.Bounds.Min.X <= p.X /\ p.X <= frac.Bounds.Max.X
                /\ frac.Bounds.Min.Y <= p.Y /\ p.Y <= frac.Bounds.Max.Y

\* C13: AddPoint with a valid selection k on a Base of fewer than 6 points
\* gives a Base one longer: the new point is at index k, at the average of the
\* point before k (the origin for k = 0) and the old point k, with the old
\* point k's flags and colour; the old points keep their values and order,
\* those from k on one index higher.
AddPointInserts ==
    LET old == frac.Base
        L == Len(old)
        k == frac.selectedPoint
    IN (~Panicked(frac) /\ 0 <= k /\ k < L /\ L < 6) =>
         LET new == AddPoint(Begin(frac)).Base
             prev == IF k = 0 THEN ZeroVec ELSE Vec(old[k].X, old[k].Y)
         IN /\ Len(new) = L + 1
            /\ new[k + 1].X = (old[k + 1].X + prev.X) \div 2
            /\ new[k + 1].Y = (old[k + 1].Y + prev.Y) \div 2
            /\ new[k + 1].Flags = old[k + 1].Flags
            /\ new[k + 1].Color = old[k + 1].Color
            /\ \A i \in 1..k : new[i] = old[i]
            /\ \A i \in (k + 1)..L : new[i + 1] = old[i]

\* AddPoint has acted on run()'s three-point base with point 1 selected: the
\* new point 1 lies midway between the old points 0 and 1 and has the colour
\* of the old point 1.
AddPointInsertsSeen ==
    /\ edits = 1
    /\ frac.selectedPoint = 1
    /\ frac.Base = <<RunBase[1], Pt(Unit \div 2, 0, 0, 128), RunBase[2], RunBase[3]>>

\* C14: DelPoint does not fail; with fewer than 3 points or a selection
\* outside 0..len(Base)-1 it leaves Base as it was; otherwise it removes
\* exactly the selected point and keeps the others in order.
DelPointRemovesOne ==
    LET old == frac.Base
        L == Len(old)
        k == frac.selectedPoint
    IN ~Panicked(frac) =>
         LET g == DelPoint(Begin(frac))
         IN /\ ~Panicked(g)
            /\ (L < 3 \/ k < 0 \/ k > L - 1) => g.Base = old
            /\ (L >= 3 /\ 0 <= k /\ k <= L - 1) =>
                 /\ Len(g.Base) = L - 1
                 /\ \A i \in 1..k : g.Base[i] = old[i]
                 /\ \A i \in (k + 2)..L : g.Base[i - 1] = old[i]

\* C15: the length of Base stays within 2..6: it is so in every state, and
\* from every state one more AddPoint or DelPoint, accepted or rejected,
\* leaves it so.
BaseLengthBounded ==
    /\ Len(frac.Base) \in 2..6
    /\ Len(AddPoint(Begin(frac)).Base) \in 2..6
    /\ Len(DelPoint(Begin(frac)).Base) \in 2..6

\* DelPoint has brought the three-point base down to two points, one of them
\* selected, and a further DelPoint is refused.
BaseLengthBoundedSeen ==
    /\ edits = 1
    /\ Len(frac.Base) = 2
    /\ frac.selectedPoint = 0
    /\ frac.MaxOOM = 4
    /\ DelPoint(Begin(frac)).Base = frac.Base

\* The Fractal after each of the edit calls, for the arguments the buttons
\* and tests give them.
EditResults(f) ==
    {AddPoint(f), DelPoint(f)}
    \cup {Toggle(f, flag) : flag \in {Hide, Prune, FlipX, FlipY, FixedC}}
    \cup {ColorChange(f, amt) : amt \in {0 - 16, 0 - 1, 1, 16}}
    \cup {XChange(f, amt) : amt \in MoveAmts}
    \cup {YChange(f, amt) : amt \in MoveAmts}

\* C16: a rejected edit does nothing: AddPoint on a 6-point Base, DelPoint on
\* a 2-point Base and every edit call with no point selected leave Base,
\* Inverse, MaxDepth, Depth, Bounds, the buffers, the selection and the record
\* of what has been rendered as they were.
RejectedEditNoOp ==
    LET f == Begin(frac)
    IN ~Panicked(frac) =>
         /\ Len(f.Base) = 6 => AddPoint(f) = f
         /\ Len(f.Base) = 2 => DelPoint(f) = f
         /\ f.selectedPoint = 0 - 1 => EditResults(f) = {f}

\* After an edit and further rendering past what Changed() renders, the
\* selection has been cleared, so every edit call is now rejected.
RejectedEditNoOpSeen ==
    /\ edits = 1
    /\ frac.selectedPoint = 0 - 1
    /\ frac.Depth > EagerDepth
    /\ ~frac.chg
    /\ Toggle(frac, FlipX) = frac

\* The position of the last point of a Base.
LastPos(base) == Vec(base[Len(base)].X, base[Len(base)].Y)

\* C17: no position edit and no drag moves the last Base point; with any
\* other point selected XChange and YChange add their amount to that point's
\* X or Y, a drag puts the point where the mouse has taken it, and every other
\* point stays as it was.
LastPointPinned ==
    LET f == Begin(frac)
        L == Len(f.Base)
        k == f.selectedPoint
    IN ~Panicked(frac) =>
         /\ \A amt \in MoveAmts :
              /\ LastPos(XChange(f, amt).Base) = LastPos(f.Base)
              /\ LastPos(YChange(f, amt).Base) = LastPos(f.Base)
              /\ (0 <= k /\ k < L - 1) =>
                   /\ XChange(f, amt).Base = [f.Base EXCEPT ![k + 1].X = @ + amt]
                   /\ YChange(f, amt).Base = [f.Base EXCEPT ![k + 1].Y = @ + amt]
         /\ \A v \in CanvasPts :
              /\ LastPos(DragTo(f, v).Base) = LastPos(f.Base)
              /\ (0 <= k /\ k < L - 1) =>
                   DragTo(f, v).Base = [f.Base EXCEPT ![k + 1].X = v.X, ![k + 1].Y = v.Y]

\* The flag bits of a Point.
FlagBits == {Hide, Prune, FlipX, FlipY, FixedC}

\* C18: Toggle(flag) on a selected point flips that flag bit of the point and
\* changes no other bit, no position or colour and no other point; a second
\* Toggle(flag) gives back the Base and, once it has re-rendered, the buffers
\* that were there before the first.
ToggleFlipsOneBit ==
    LET f == Begin(frac)
        L == Len(f.Base)
        k == f.selectedPoint
    IN (~Panicked(frac) /\ 0 <= k /\ k < L) =>
         \A flag \in FlagBits :
            LET g == Toggle(f, flag)
                h == Toggle(g, flag)
                p == f.Base[k + 1]
                q == g.Base[k + 1]
            IN /\ Len(g.Base) = L
               /\ \A i \in 1..L : i # k + 1 => g.Base[i] = f.Base[i]
               /\ q.X = p.X /\ q.Y = p.Y /\ q.Color = p.Color
               /\ q.Flags \in 0..31
               /\ \A b \in FlagBits :
                    HasFlag(q.Flags, b) = (IF b = flag THEN ~HasFlag(p.Flags, b)
                                           ELSE HasFlag(p.Flags, b))
               /\ h.Base = f.Base
               /\ h.data = f.data
               /\ h.selectedPoint = f.selectedPoint

\* Toggle(FlipX) has cleared the FlipX bit of point 0 of the two-point base
\* and left the rest of the Base alone.
ToggleFlipsOneBitSeen ==
    /\ edits = 1
    /\ frac.chg
    /\ frac.selectedPoint = 0
    /\ frac.Base = [FlagBase EXCEPT ![1].Flags = 0]

\* C19: ColorChange on a selected point with stored colour c in 0..1023
\* stores (c + delta) mod 1024, a value in 0..1023, for each delta of the
\* colour buttons, so the Base colours stay in 0..1023.
ColorChangeWraps ==
    LET f == Begin(frac)
        L == Len(f.Base)
        k == f.selectedPoint
    IN /\ \A i \in 1..L : f.Base[i].Color \in 0..1023
       /\ (~Panicked(frac) /\ 0 <= k /\ k < L) =>
            \A delta \in {0 - 16, 0 - 1, 1, 16} :
               LET c == f.Base[k + 1].Color
                   c2 == ColorChange(f, delta).Base[k + 1].Color
               IN c \in 0..1023 => c2 = (c + delta) % 1024 /\ c2 \in 0..1023

\* C20: Inverse has the length L of Base and Inverse[L-1-i] has the flags and
\* colour of Base[i] at (1 - Base[i-1].X, Base[i-1].Y), the origin standing in
\* for Base[-1]; the last Inverse point is at (1,0).
InverseMirrorsBase ==
    LET L == Len(frac.Base)
    IN /\ Len(frac.Inverse) = L
       /\ \A i \in 0..(L - 1) :
            LET q == frac.Inverse[(L - 1 - i) + 1]
                b == frac.Base[i + 1]
                before == IF i = 0 THEN ZeroVec
                          ELSE Vec(frac.Base[i].X, frac.Base[i].Y)
            IN /\ q.Flags = b.Flags
               /\ q.Color = b.Color
               /\ q.X = Unit - before.X
               /\ q.Y = before.Y
       /\ frac.Inverse[L].X = Unit
       /\ frac.Inverse[L].Y = 0

\* A move of point 0 of the two-point base has been followed through: the
\* first Inverse point carries the last Base point's colour at the mirrored
\* new position of point 0.
InverseMirrorsBaseSeen ==
    /\ edits = 1
    /\ Len(frac.Base) = 2
    /\ frac.Base[1].X # FlagBase[1].X
    /\ frac.Inverse[1].X = Unit - frac.Base[1].X
    /\ frac.Inverse[1].Color = frac.Base[2].Color

\* The template Partial expands for the segment ending in the point p1.
TemplateFor(f, p1) == IF HasFlag(p1.Flags, FlipX) THEN f.Inverse ELSE f.Base

\* C21: the flip bits of a generated point are its template point's flip bits
\* XOR those of the segment's defining point, its other flag bits the template
\* point's; so a flip-flagged template point under a defining point with the
\* same flip comes out with the flip cleared, and a generated point with both
\* flips clear is itself expanded with Base, not Inverse, and Y not negated.
FlipsCompose ==
    LET L == Len(frac.Base)
    IN ~Panicked(frac) =>
         \A d \in 2..frac.Depth :
            LET src == Points(frac, d - 1).pts
                dst == Points(frac, d).pts
            IN \A k \in 1..Len(src) : \A i \in 1..L :
                 LET p == src[k]
                     t == TemplateFor(frac, p)[i]
                     c == dst[(k - 1) * L + i]
                 IN /\ \A b \in {FlipX, FlipY} :
                         HasFlag(c.Flags, b) = (HasFlag(t.Flags, b) # HasFlag(p.Flags, b))
                    /\ \A b \in {Hide, Prune, FixedC} :
                         HasFlag(c.Flags, b) = HasFlag(t.Flags, b)
                    /\ (HasFlag(t.Flags, FlipX) /\ HasFlag(p.Flags, FlipX))
                          => ~HasFlag(c.Flags, FlipX)
                    /\ (d < frac.Depth /\ ~HasFlag(c.Flags, FlipX) /\ ~HasFlag(c.Flags, FlipY)) =>
                         LET n == (k - 1) * L + i
                             prev == IF n = 1 THEN ZeroPoint ELSE dst[n - 1]
                             a == NewAffineBetween(prev, c)
                             seg == Points(frac, d + 1).pts
                         IN \A j \in 1..L :
                              /\ seg[(n - 1) * L + j].X
                                   = Project(a, Vec(frac.Base[j].X, frac.Base[j].Y)).X
                              /\ seg[(n - 1) * L + j].Y
                                   = Project(a, Vec(frac.Base[j].X, frac.Base[j].Y)).Y

\* In the two-point base with FlipX on point 0, the second point of depth 2
\* comes from the FlipX template point under the FlipX point 0 and has FlipX
\* clear; depth 3, which expands it, has been rendered.
FlipsComposeSeen ==
    /\ ~Panicked(frac)
    /\ Len(frac.Base) = 2
    /\ frac.Depth >= 3
    /\ HasFlag(frac.Base[1].Flags, FlipX)
    /\ HasFlag(frac.Inverse[2].Flags, FlipX)
    /\ ~HasFlag(Points(frac, 2).pts[2].Flags, FlipX)
    /\ edits = 1

\* C22: the colour of each point Partial generates is (template point's
\* colour + colour of the segment's end point) mod 1024, in 0..1023; when the
\* template point has FixedC the end point's colour is not added and the
\* colour is the template point's own mod 1024.
ColorAccumulates ==
    LET L == Len(frac.Base)
    IN ~Panicked(frac) =>
         \A d \in 2..frac.Depth :
            LET src == Points(frac, d - 1).pts
                dst == Points(frac, d).pts
            IN \A k \in 1..Len(src) : \A i \in 1..L :
                 LET p == src[k]
                     t == TemplateFor(frac, p)[i]
                     c == dst[(k - 1) * L + i]
                 IN /\ c.Color \in 0..1023
                    /\ \E n \in (0 - 64)..64 :
                         c.Color + n * 1024
                            = IF HasFlag(t.Flags, FixedC) THEN t.Color
                              ELSE t.Color + p.Color

\* Depth 2 of the two-point base: colour 1000 under an end point of colour 40
\* has wrapped to 16, and the FixedC point of colour 40 has stayed 40 under
\* the same end point; the fractal has been rendered to its last depth.
ColorAccumulatesSeen ==
    /\ frac.Base = FlagBase
    /\ frac.Depth = frac.MaxDepth - 1
    /\ Points(frac, 1).pts[2].Color = 40
    /\ Points(frac, 2).pts[3].Color = 16
    /\ Points(frac, 2).pts[4].Color = 40

\* C23: after Render(1) depth 1 has len(Base) points, each equal to its Base
\* point in position, flags and colour, which is what Partial gives for the
\* unit segment (0,0)-(1,0) of depth 0.
DepthOneIsBase ==
    ~Panicked(frac) =>
        LET g == Render(Begin(frac), 1).f
            line == Points(g, 1).pts
        IN /\ Len(line) = Len(frac.Base)
           /\ \A i \in 1..Len(frac.Base) :
                /\ line[i].X = frac.Base[i].X
                /\ line[i].Y = frac.Base[i].Y
                /\ line[i].Flags = frac.Base[i].Flags
                /\ line[i].Color = frac.Base[i].Color
           /\ line = Partial(g, ZeroPoint, Points(g, 0).pts[1], line)

\* ------------------------------------------- the helper functions, called
\* Every int16.
Int16s == (0 - 32768)..32767

\* Hues: two turns around zero and the ends of int16.
RgbHues == ((0 - 360)..360) \cup {0 - 32768, 0 - 32767, 0 - 721, 32400, 32767}

\* Saturations and values inside 0..255.
RgbLevels == {0, 1, 2, 85, 127, 128, 254, 255}

\* Saturations and values outside 0..255.
RgbBeyond == {0 - 256, 0 - 1, 256}

\* End points of a segment, in 1/Unit.
SegmentPts == {Vec(x, y) : x \in {0 - Unit, 0, 3, Unit}, y \in {0 - 2, 0, Unit}}

\* Vectors to project.
ProbePts == {ZeroVec, Vec(Unit, 0), Vec(0, Unit), Vec(0 - 3, 5)}

\* Values of f.Bounds: rectangles around the span of the base, in 1/Unit.
BoundsArgs ==
    {[Min |-> Vec(x0, y0), Max |-> Vec(x1, y1)] :
        x0 \in {0 - 2, 0}, y0 \in {0 - 4, 0}, x1 \in {Unit, 3 * Unit}, y1 \in {0, 2, Unit}}

\* Viewports: rectangles of 3:2, 1:1, 2:3 and 1190:790 pixels.
PortArgs ==
    {[Min |-> Vec(5, 5), Max |-> Vec(5 + s[1], 5 + s[2])] :
        s \in {<<3, 2>>, <<1, 1>>, <<2, 3>>, <<1190, 790>>}}

\* Zoom steps.
ScaleArgs == {0 - 1, 0, 2}

\* Rectangles to map between, some of zero width or height.
RectArgs ==
    {[Min |-> m, Max |-> Vec(m.X + w, m.Y + h)] :
        m \in {ZeroVec, Vec(0 - 2, 5)}, w \in {0, 3, Unit}, h \in {0, 2}}

\* A call of fn with args, not yet made.
Calling(fn, args) == [fn |-> fn, args |-> args, done |-> FALSE, out |-> <<>>]

\* The result of a call.
Returned(out) == [calc EXCEPT !.done = TRUE, !.out = out]

\* The Fractal is held at a fixed value while a helper function is followed.
CalcFresh ==
    /\ frac = NewFractal(FlagBase, 4)
    /\ dragging = FALSE
    /\ dragStart = ZeroVec
    /\ dragPoint = ZeroVec
    /\ lastDrag = ZeroVec
    /\ uiState = [e \in Elements |-> Unpressed]
    /\ mouseDown = FALSE
    /\ fracPortScale = 0
    /\ fracRect = AdjustedBounds(frac, fracPortRect, 0)
    /\ edits = 0
    /\ alloc = AllocIn(NewFractal(FlagBase, 4))

CalcInit ==
    /\ CalcFresh
    /\ \/ \E x \in Int16s : calc = Calling("satMod", <<x, 256>>)
       \/ \E h \in RgbHues : \E s, v \in RgbLevels : calc = Calling("rgb", <<h, s, v>>)
       \/ \E s, v \in RgbLevels \cup RgbBeyond : calc = Calling("rgb", <<0, s, v>>)
       \/ \E p0, p1 \in SegmentPts :
            calc = Calling("NewAffineBetween", <<Pt(p0.X, p0.Y, 0, 0), Pt(p1.X, p1.Y, 0, 0)>>)
       \/ \E b \in BoundsArgs : \E r0 \in PortArgs : \E scale \in ScaleArgs :
            calc = Calling("AdjustedBounds", <<b, r0, scale>>)
       \/ \E r0, r1 \in RectArgs : calc = Calling("NewAffinesBetween", <<r0, r1>>)

CallSatMod ==
    /\ calc.fn = "satMod" /\ ~calc.done
    /\ calc' = Returned(satMod(calc.args[1], calc.args[2]))
    /\ UNCHANGED <<frac, runVars, edits, alloc>>

CallRgb ==
    /\ calc.fn = "rgb" /\ ~calc.done
    /\ calc' = Returned(rgb(calc.args[1], calc.args[2], calc.args[3]))
    /\ UNCHANGED <<frac, runVars, edits, alloc>>

CallNewAffineBetween ==
    /\ calc.fn = "NewAffineBetween" /\ ~calc.done
    /\ calc' = Returned(NewAffineBetween(calc.args[1], calc.args[2]))
    /\ UNCHANGED <<frac, runVars, edits, alloc>>

CallAdjustedBounds ==
    /\ calc.fn = "AdjustedBounds" /\ ~calc.done
    /\ calc' = Returned(AdjustedBounds([frac EXCEPT !.Bounds = calc.args[1]],
                                       calc.args[2], calc.args[3]))
    /\ UNCHANGED <<frac, runVars, edits, alloc>>

CallNewAffinesBetween ==
    /\ calc.fn = "NewAffinesBetween" /\ ~calc.done
    /\ calc' = Returned(NewAffinesBetween(calc.args[1], calc.args[2]))
    /\ UNCHANGED <<frac, runVars, edits, alloc>>

CalcNext ==
    \/ CallSatMod
    \/ CallRgb
    \/ CallNewAffineBetween
    \/ CallAdjustedBounds
    \/ CallNewAffinesBetween

\* Each helper function on each of its inputs.
CalcSpec == CalcInit /\ [][CalcNext]_vars

SatModInRange ==
    /\ (calc.fn = "satMod" /\ calc.done) =>
          LET x == calc.args[1]
          IN /\ calc.out \in 0..255
             /\ (x \in 0..255) => calc.out = x
             /\ (x >= 256) => calc.out = 255
    /\ (calc.fn = "rgb" /\ calc.done) =>
          /\ satMod(calc.args[2], 256) \in 0..255
          /\ satMod(calc.args[3], 256) \in 0..255

\* C26 as stated: for every hue and every saturation and value in 0..255, rgb
\* returns the result of: hue into 0..359, q = hue/60, hp = hue%60,
\* c = s*v/255, m = v - c, x = c*hp/60 negated when q is odd, the triple
\* chosen by sector from c, x, 0, then m added; each channel lies in 0..255.
RgbNegatesOddSector ==
    (calc.fn = "rgb" /\ calc.done /\ calc.args[2] \in 0..255 /\ calc.args[3] \in 0..255) =>
        LET h == ((calc.args[1] % 360) + 360) % 360
            s == calc.args[2]
            v == calc.args[3]
            q == h \div 60
            hp == h % 60
            c == (s * v) \div 255
            m == v - c
            x == IF q % 2 = 1 THEN 0 - ((c * hp) \div 60) ELSE (c * hp) \div 60
            t == rgbSector(q, c, x)
        IN /\ q \in 0..5
           /\ calc.out = <<t[1] + m, t[2] + m, t[3] + m>>
           /\ \A i \in 1..3 : calc.out[i] \in 0..255

\* C26: the same with x = c - c*hp/60 in the odd sectors.
RgbFollowsSteps ==
    (calc.fn = "rgb" /\ calc.done /\ calc.args[2] \in 0..255 /\ calc.args[3] \in 0..255) =>
        LET h == ((calc.args[1] % 360) + 360) % 360
            s == calc.args[2]
            v == calc.args[3]
            q == h \div 60
            hp == h % 60
            c == (s * v) \div 255
            m == v - c
            x == IF q % 2 = 1 THEN c - ((c * hp) \div 60) ELSE (c * hp) \div 60
            t == rgbSector(q, c, x)
        IN /\ q \in 0..5
           /\ calc.out = <<t[1] + m, t[2] + m, t[3] + m>>
           /\ \A i \in 1..3 : calc.out[i] \in 0..255

\* rgb has run on a negative hue that falls into an odd sector, with a
\* saturation below 255: hue -170 is 190, sector 3.
RgbFollowsStepsSeen ==
    /\ calc.fn = "rgb" /\ calc.done
    /\ calc.args = <<0 - 170, 128, 254>>
    /\ calc.out = <<127, 233, 254>>

\* C27: with no zoom steps AdjustedBounds pads one axis of Bounds, by the same
\* amount on both sides, until width : height is the ratio of the viewport.
\* The result contains Bounds and has its centre; the other axis is unchanged;
\* Y is the padded axis when Bounds has zero height or is wider than the
\* viewport's ratio, X otherwise.
PadsToViewportRatio ==
    (calc.fn = "AdjustedBounds" /\ calc.done /\ calc.args[3] = 0) =>
        LET b == RatRect(calc.args[1])
            port == RectSize(RatRect(calc.args[2]))
            r == calc.out
            size == RectSize(r)
            was == RectSize(b)
            wider == was.Y.n = 0 \/ RatLess(RatDiv(port.X, port.Y), RatDiv(was.X, was.Y))
            sameX == RatEq(r.Min.X, b.Min.X) /\ RatEq(r.Max.X, b.Max.X)
            sameY == RatEq(r.Min.Y, b.Min.Y) /\ RatEq(r.Max.Y, b.Max.Y)
        IN /\ RatEq(RatMul(size.X, port.Y), RatMul(size.Y, port.X))
           /\ ~RatLess(b.Min.X, r.Min.X) /\ ~RatLess(r.Max.X, b.Max.X)
           /\ ~RatLess(b.Min.Y, r.Min.Y) /\ ~RatLess(r.Max.Y, b.Max.Y)
           /\ RatEq(RatAdd(r.Min.X, r.Max.X), RatAdd(b.Min.X, b.Max.X))
           /\ RatEq(RatAdd(r.Min.Y, r.Max.Y), RatAdd(b.Min.Y, b.Max.Y))
           /\ IF wider THEN sameX ELSE sameY
           /\ (was.Y.n = 0) => RatLess(RatInt(0), size.Y)

\* Bounds of ratio 3.0, 3 wide and 1 high, in a viewport of ratio 1.5: Y has
\* been padded by 1/2 on either side and X is as it was.
PadsToViewportRatioSeen ==
    /\ calc.fn = "AdjustedBounds" /\ calc.done /\ calc.args[3] = 0
    /\ calc.args[1] = [Min |-> ZeroVec, Max |-> Vec(3 * Unit, Unit)]
    /\ calc.args[2].Max = Vec(8, 7)
    /\ RatEq(calc.out.Min.Y, Rat(0 - Unit, 2))
    /\ RatEq(calc.out.Max.Y, Rat(3 * Unit, 2))
    /\ RatEq(calc.out.Min.X, RatInt(0))
    /\ RatEq(calc.out.Max.X, RatInt(3 * Unit))

\* C28: NewAffinesBetween(r0, r1) never divides by a zero width or height of
\* r0, so its forward matrix is finite whatever r0 is; and when neither
\* rectangle has a zero side the forward matrix takes the corners of r0 to the
\* corners of r1 and the inverse matrix takes them back.
AffinesGuardZeroSize ==
    (calc.fn = "NewAffinesBetween" /\ calc.done) =>
        LET r0 == RatRect(calc.args[1])
            r1 == RatRect(calc.args[2])
            s0 == RectSize(r0)
            s1 == RectSize(r1)
            to == calc.out.to
            from == calc.out.from
            same(a, b) == RatEq(a.X, b.X) /\ RatEq(a.Y, b.Y)
        IN /\ RatFinite(to.sx) /\ RatFinite(to.sy) /\ RatFinite(to.tx) /\ RatFinite(to.ty)
           /\ (s0.X.n # 0 /\ s0.Y.n # 0 /\ s1.X.n # 0 /\ s1.Y.n # 0) =>
                /\ same(ProjectRat(to, r0.Min), r1.Min)
                /\ same(ProjectRat(to, r0.Max), r1.Max)
                /\ same(ProjectRat(from, ProjectRat(to, r0.Min)), r0.Min)
                /\ same(ProjectRat(from, ProjectRat(to, r0.Max)), r0.Max)

\* The Base points closer than the radius to the position at, by index from 0.
Within(f, at) ==
    {i \in 0..(Len(f.Base) - 1) : Dist2(f.Base[i + 1], at) < HitRadius * HitRadius}

\* C29: a press in the canvas space that is over no button selects the Base
\* point nearest to the mouse among those closer than the radius, the lowest
\* index among equally near ones, and starts a drag of it; with no point
\* closer than the radius the selection becomes -1 and no drag starts.
PressSelectsNearest ==
    (~mouseDown /\ ~Panicked(frac)) =>
        \A m \in MousePlaces :
            (m.canvas /\ m.over \notin Elements) =>
                LET r == PressStep(Locals, m)
                    near == Within(frac, m.at)
                    d(i) == Dist2(frac.Base[i + 1], m.at)
                IN IF near = {}
                   THEN /\ r.frac.selectedPoint = 0 - 1
                        /\ ~r.dragging
                   ELSE LET best == CHOOSE i \in near :
                                       \A j \in near : d(i) < d(j) \/ (d(i) = d(j) /\ i <= j)
                        IN /\ r.frac.selectedPoint = best
                           /\ r.dragging
                           /\ r.dragStart = m.at
                           /\ r.dragPoint = Vec(frac.Base[best + 1].X, frac.Base[best + 1].Y)
                           /\ r.frac.Base = frac.Base

\* A press has found two points at the mouse, point 0 dragged onto the last
\* point before, and has taken point 0.
PressSelectsNearestSeen ==
    /\ mouseDown /\ dragging
    /\ edits = 1
    /\ Within(frac, dragStart) = {0, Len(frac.Base) - 1}
    /\ Dist2(frac.Base[1], dragStart) = Dist2(frac.Base[Len(frac.Base)], dragStart)
    /\ frac.selectedPoint = 0
    /\ dragPoint = Vec(Unit, 0)

\* A press away from every point has cleared the selection.
PressMissesSeen ==
    /\ mouseDown /\ ~dragging
    /\ edits = 1
    /\ frac.selectedPoint = 0 - 1
    /\ \E m \in MousePlaces : m.canvas /\ Within(frac, m.at) = {}

\* C30: for d >= 2 Render(d) takes the points of depth d-1 in order; segment k
\* runs from point k-1 (the origin for k = 0) to point k, and entries
\* k*L .. k*L+L-1 of the window of depth d get the images of the L template
\* points under the transform of that segment, the template being Inverse
\* when point k carries FlipX and Base otherwise, its Y negated when point k
\* carries FlipY.  The L^d entries of the window are all written this way and
\* nothing outside the window changes.
RenderFillsWindow ==
    ~Panicked(frac) =>
        \A d \in 2..Min2(frac.Depth + 1, frac.MaxDepth - 1) :
            LET L == Len(frac.Base)
                src == Points(frac, d - 1).pts
                res == Render(Begin(frac), d)
                g == res.f
                w == frac.lines[d + 1]
            IN /\ res.ok /\ ~Panicked(g)
               /\ g.lines = frac.lines
               /\ w.hi - w.lo = L ^ d
               /\ Len(src) * L = L ^ d
               /\ \A n \in 1..Len(frac.data) :
                    (n <= w.lo \/ n > w.hi) => g.data[n] = frac.data[n]
               /\ \A k \in 0..(Len(src) - 1) : \A i \in 0..(L - 1) :
                    LET p1 == src[k + 1]
                        p0 == IF k = 0 THEN ZeroPoint ELSE src[k]
                        t == TemplateFor(frac, p1)[i + 1]
                        y == IF HasFlag(p1.Flags, FlipY) THEN 0 - t.Y ELSE t.Y
                        v == Project(NewAffineBetween(p0, p1), Vec(t.X, y))
                        c == g.data[w.lo + k * L + i + 1]
                    IN c.X = v.X /\ c.Y = v.Y

\* Render(6) has run on the two-point base, whose point 0 carries FlipX and
\* whose point 1 carries FlipY: segment 1 of depth 2 starts with the image of
\* the first Base point, mirrored in Y, under the transform from point 0 to
\* point 1 of depth 1.
RenderFillsWindowSeen ==
    /\ frac.Base = FlagBase
    /\ frac.Depth = 6
    /\ 6 \in frac.rendered
    /\ LET p0 == Points(frac, 1).pts[1]
           p1 == Points(frac, 1).pts[2]
           c == Points(frac, 2).pts[3]
           v == Project(NewAffineBetween(p0, p1), Vec(FlagBase[1].X, 0 - FlagBase[1].Y))
       IN /\ HasFlag(p1.Flags, FlipY) /\ ~HasFlag(p1.Flags, FlipX)
          /\ c.X = v.X /\ c.Y = v.Y
          /\ c.Y # p0.Y

\* C31: selectedPoint is -1 or an index of Base in every state, so that
\* neither the drawing of a frame, which reads Base[selectedPoint] and
\* Points(1)[selectedPoint], nor a DelPoint indexes out of range.
SelectionValid ==
    /\ frac.selectedPoint = 0 - 1
       \/ (frac.selectedPoint >= 0 /\ frac.selectedPoint < Len(frac.Base))
    /\ ~Panicked(frac)
    /\ ~Panicked(DelPoint(frac))

\* C32: Render(depth) returns false and touches nothing for every depth >=
\* MaxDepth, depth 1 with MaxDepth = 1 included, and for every negative depth;
\* so the renders of Changed() never reach a window Alloc did not make.
RenderRefusesPastMaxDepth ==
    /\ frac.panic \notin {"Render: lines[1]", "Render: dest[i]",
                          "Render: dest[offset:offset+l]"}
    /\ ~Panicked(frac) =>
          \A d \in {0 - 2, 0 - 1, 1, frac.MaxDepth, frac.MaxDepth + 1, DepthCap} :
              (d < 0 \/ d >= frac.MaxDepth) =>
                  LET res == Render(Begin(frac), d)
                  IN ~res.ok /\ res.f = Begin(frac)

\* The points Partial gives for segment k (from 0) of the points src.
SegmentOf(f, src, k) ==
    Partial(f, IF k = 0 THEN ZeroPoint ELSE src[k], src[k + 1], <<>>)

\* C33: a Render that returns false leaves Depth, Bounds and every buffer as
\* they were; a Render(d) that returns true has written the whole window of
\* depth d; so every depth Points shows is the whole expansion of the depth
\* before it, never a part of it.
RenderAllOrNothing ==
    ~Panicked(frac) =>
        LET L == Len(frac.Base)
            whole(f, d) ==
                LET pts == Points(f, d).pts
                    src == Points(f, d - 1).pts
                IN /\ ~Points(f, d).nil
                   /\ Len(pts) = L ^ d
                   /\ d >= 2 => \A k \in 0..(Len(src) - 1) :
                                   SubSeq(pts, k * L + 1, k * L + L) = SegmentOf(f, src, k)
        IN /\ \A d \in DepthArgs(frac) \cup {1, 2} :
                LET res == Render(Begin(frac), d)
                    g == res.f
                IN /\ ~Panicked(g)
                   /\ ~res.ok => /\ g.Depth = frac.Depth
                                 /\ g.Bounds = frac.Bounds
                                 /\ g.data = frac.data
                                 /\ g.lines = frac.lines
                   /\ (res.ok /\ d >= 1) => g.Depth >= d /\ whole(g, d)
           /\ \A d \in 1..frac.Depth : whole(frac, d)

\* After an edit Render(6) has returned true and filled depth 6, and
\* Render(8), two past Depth, returns false.
RenderAllOrNothingSeen ==
    /\ edits = 1
    /\ frac.Depth = 6
    /\ frac.rendered = 0..6
    /\ frac.MaxDepth = 8
    /\ ~Render(Begin(frac), 8).ok
    /\ Render(Begin(frac), 7).ok
    /\ Len(Points(frac, 6).pts) = 64

\* C34: every point of every rendered depth 1..Depth has a colour in
\* 0..1023, whatever the edits, so each lookup of a point's colour in the
\* 1024 entries of colorTab is in range; and colorTab is what NewFractal
\* made it.
ColorsIndexTable ==
    /\ frac.colorTab = NewColorTab
    /\ DOMAIN frac.colorTab = 0..1023
    /\ frac.panic # "run: frac.colorTab[points[j].Color]"
    /\ ~Panicked(frac) =>
          \A d \in 1..frac.Depth : \A j \in 1..Len(Points(frac, d).pts) :
              /\ Points(frac, d).pts[j].Color \in 0..1023
              /\ Points(frac, d).pts[j].Color \in DOMAIN frac.colorTab

\* ColorChange(-48) has made the colour of a FixedC point of Base negative,
\* and the depths rendered since hold it as 1016.
ColorsIndexTableSeen ==
    /\ edits = 1
    /\ frac.Depth >= 2
    /\ \E i \in 1..Len(frac.Base) :
          /\ HasFlag(frac.Base[i].Flags, FixedC)
          /\ frac.Base[i].Color = 0 - 8
          /\ Points(frac, 1).pts[i].Color = 1016
    /\ \E j \in 1..Len(Points(frac, 2).pts) :
          /\ HasFlag(Points(frac, 2).pts[j].Flags, FixedC)
          /\ Points(frac, 2).pts[j].Color = 1016


\* --------------------------------------------------------- layout and edits
\* The Fractal after each call that edits a point without changing the
\* length of Base: the buttons' calls and the write of a drag.
PointEdits(f) ==
    {Toggle(f, flag) : flag \in {Hide, Prune, FlipX, FlipY, FixedC}}
    \cup {ColorChange(f, amt) : amt \in ColorAmts}
    \cup {XChange(f, amt) : amt \in MoveAmts}
    \cup {YChange(f, amt) : amt \in MoveAmts}
    \cup {DragTo(f, v) : v \in CanvasPts}

\* C35: Toggle, ColorChange, XChange, YChange and the write of a drag do not
\* run Alloc: they leave MaxDepth, Total, the backing array's length and the
\* per-depth windows as they were and, with a point selected, run Changed(),
\* which resets Depth and re-renders the depths 0..min(5, MaxDepth-1).
\* AddPoint and DelPoint, when they change the length of Base, run Alloc, and
\* MaxDepth, Total and the windows are then those of the new length.
OnlyLengthEditsAlloc ==
    LET f == Begin(frac)
    IN ~Panicked(frac) =>
         /\ \A g \in PointEdits(f) :
              /\ ~g.alloced
              /\ g.MaxDepth = f.MaxDepth
              /\ g.Total = f.Total
              /\ g.lines = f.lines
              /\ Len(g.data) = Len(f.data)
              /\ Len(g.Base) = Len(f.Base)
              /\ (~NoSelection(f) /\ ~Panicked(g)) =>
                    /\ g.chg
                    /\ g.Depth = Min2(EagerDepth, f.MaxDepth - 1)
                    /\ g.rendered = 0..g.Depth
         /\ \A g \in {AddPoint(f), DelPoint(f)} :
              IF Len(g.Base) # Len(f.Base)
              THEN /\ g.alloced
                   /\ g.MaxDepth = AllocSizes(Len(g.Base), g.MaxOOM).maxDepth
                   /\ g.Total = AllocSizes(Len(g.Base), g.MaxOOM).total
                   /\ g.lines = AllocLayout(g).lines
                   /\ g.lines # f.lines
              ELSE ~g.alloced
         /\ frac.alloced => frac.chg

\* A point of the two-point base has just been moved: Changed() ran, Alloc
\* did not, and the layout is still the one of construction although Depth
\* was reset from 7 to 5.
OnlyLengthEditsAllocSeen ==
    /\ edits = 1
    /\ frac.chg
    /\ ~frac.alloced
    /\ frac.Base # FlagBase
    /\ Len(frac.Base) = 2
    /\ frac.MaxDepth = 8
    /\ frac.lines = NewFractal(FlagBase, 8).lines
    /\ frac.Depth = 5


\* ------------------------------------------------------ segment end points
\* The last Base point is at (1,0).
BaseEndsAtUnit(f) ==
    /\ f.Base[Len(f.Base)].X = Unit
    /\ f.Base[Len(f.Base)].Y = 0

PressedElements == {e \in Elements : uiState[e] = Pressed}

\* C38: every element is Unpressed or Pressed and starts Unpressed; at most one
\* is Pressed, and only while the mouse button is held.  A press turns exactly
\* the enabled element under the mouse to Pressed and no other; an element
\* becomes Pressed in no other frame.  A release runs the callback of the
\* Pressed element once if the mouse is within its bounds and runs no callback
\* otherwise, and leaves every element Unpressed; outside a drag Base changes
\* only in such a release.
ButtonMachine ==
    /\ [](/\ \A e \in Elements : uiState[e] \in {Unpressed, Pressed}
          /\ Cardinality(PressedElements) <= 1
          /\ ~mouseDown => PressedElements = {}
          /\ (~Panicked(frac) /\ ~mouseDown) =>
                \A m \in MousePlaces :
                    PressStep(Locals, m).uiState =
                        [e \in Elements |->
                            IF e = m.over /\ enabled(e) THEN Pressed ELSE Unpressed]
          /\ (~Panicked(frac) /\ mouseDown) =>
                \A m \in MousePlaces :
                    LET r == ReleaseStep(Locals, m)
                    IN /\ r.uiState = [e \in Elements |-> Unpressed]
                       /\ r.frac = IF m.over \in PressedElements
                                   THEN Callback(m.over, Begin(frac))
                                   ELSE Begin(frac))
    /\ [][/\ PressedElements' \ PressedElements # {} => (~mouseDown /\ mouseDown')
          /\ (mouseDown /\ ~mouseDown') => PressedElements' = {}
          /\ (frac'.Base # frac.Base /\ ~dragging) =>
                (mouseDown /\ ~mouseDown' /\ PressedElements # {})]_vars

\* The button ">>" has been pressed and released within its bounds with a
\* point selected: its callback ran once, the point's colour is 16 more than
\* at the start, and no element is Pressed.
ButtonMachineSeen ==
    /\ edits = 1
    /\ ~mouseDown
    /\ PressedElements = {}
    /\ frac.chg
    /\ frac.selectedPoint >= 0
    /\ \E i \in 1..Len(RunBase) :
          /\ Len(frac.Base) = Len(RunBase)
          /\ frac.Base[i].Color = RunBase[i].Color + 16

\* An element is Pressed while the button is held.
ButtonHeldSeen ==
    /\ mouseDown
    /\ uiState["DelPoint"] = Pressed
    /\ frac.selectedPoint >= 0


\* ------------------------------------------------ the transform in a drag
\* The transform as the three statements of run() compute it from the
\* Fractal f and the zoom counter.
ViewOf(f, scale) == AdjustedBounds(f, fracPortRect, scale)

\* C36: while a drag is in progress a scroll only moves the zoom counter, the
\* transform stays as it is and no incremental Render step runs; when the
\* drag is released, and in every frame in which an incremental Render step
\* runs, the transform is computed anew from AdjustedBounds with the zoom
\* counter as it then is.
DragHoldsTransform ==
    /\ []((~Panicked(frac) /\ dragging) =>
            /\ \A s \in Scrolls :
                 ScrollStep(Locals, s)
                    = [Locals EXCEPT !.fracPortScale = fracPortScale + s]
            /\ RenderStep(Locals) = Locals
            /\ \A m \in MousePlaces :
                 LET r == ReleaseStep(Locals, m)
                 IN ~Panicked(r.frac) =>
                       /\ ~r.dragging
                       /\ r.fracRect = ViewOf(r.frac, fracPortScale))
    /\ []((~Panicked(frac) /\ ~dragging /\ frac.Depth < frac.MaxDepth - 1) =>
            LET r == RenderStep(Locals)
            IN /\ r.frac.Depth = frac.Depth + 1
               /\ r.fracRect = ViewOf(r.frac, fracPortScale))
    /\ [][/\ (dragging /\ dragging') => fracRect' = fracRect
          /\ (dragging' /\ ~Panicked(frac')) =>
                IF frac'.chg THEN frac'.rendered = 0..Min2(EagerDepth, frac'.MaxDepth - 1)
                ELSE frac'.rendered = frac.rendered
          /\ (dragging /\ ~dragging' /\ ~Panicked(frac')) =>
                fracRect' = ViewOf(frac', fracPortScale')
          /\ (~Panicked(frac') /\ ~frac'.chg /\ frac'.rendered # frac.rendered) =>
                (~dragging' /\ fracRect' = ViewOf(frac', fracPortScale'))
          /\ (~Panicked(frac') /\ frac'.chg /\ frac'.Depth > EagerDepth) =>
                (~dragging' /\ fracRect' = ViewOf(frac', fracPortScale'))]_vars

\* A drag is in progress, the wheel has been turned during it and the
\* dragged point has moved: the zoom counter is 1 and the transform is still
\* the one computed before the drag, from the first Bounds and a counter of 0.
DragHoldsTransformSeen ==
    /\ dragging
    /\ edits >= 1
    /\ fracPortScale = 1
    /\ fracRect # ViewOf(frac, fracPortScale)
    /\ LET f0 == DelPoint(SelectPoint(NewFractal(RunBase, 7), 1))
       IN fracRect = ViewOf(RenderUpTo(f0, 0, f0.MaxDepth - 1), 0)

\* After the release of such a drag the transform is that of the Bounds and
\* the zoom counter of the moment.
DragReleasedSeen ==
    /\ ~dragging /\ ~mouseDown
    /\ edits >= 1
    /\ fracPortScale = 1
    /\ frac.selectedPoint >= 0
    /\ fracRect = ViewOf(frac, 1)
    /\ fracRect # ViewOf(frac, 0)

\* The drag over and the counter at -1, an incremental Render step has run
\* after the 6 depths of Changed(): all 7 depths of the moved base are
\* rendered, and the transform is that of the grown Bounds.
IncrementalRenderSeen ==
    /\ edits >= 1
    /\ ~dragging
    /\ ~frac.chg
    /\ frac.Depth = 6
    /\ fracPortScale = 0 - 1
    /\ fracRect = ViewOf(frac, 0 - 1)

====
